---- MODULE Spec2Model ----
(***************************************************************************)
(* A model of the sink engine of src/pulsecore/sink.c: the control-side    *)
(* lifecycle (new, put, unlink, suspend, update_status), the driver        *)
(* callbacks, the mailbox between the control thread and the render        *)
(* thread, the render-thread message handler and the render pipeline.      *)
(*                                                                         *)
(* Conventions.                                                            *)
(*  - A pa_assert() of the source is a precondition: the program aborts    *)
(*    when it fails, so an action is guarded by the assertions its code    *)
(*    starts with.                                                         *)
(*  - A synchronous message (pa_asyncmsgq_send) goes through the same FIFO *)
(*    queue as the asynchronous ones (pa_asyncmsgq_post): the sender       *)
(*    sleeps until the render thread has worked the queue off up to and    *)
(*    including its message.  The action of the sender therefore drains    *)
(*    the mailbox and then runs the handler of its own message.            *)
(*  - trace holds the externally visible events (hooks fired, callbacks    *)
(*    called, messages handled, subscription events) of the last           *)
(*    operation, in the order the code produces them.                      *)
(***************************************************************************)
EXTENDS Integers, Sequences, FiniteSets, TLC

(* ------------------------------ bounds -------------------------------- *)
MaxInputs == 2     \* sink inputs 1..MaxInputs
MaxNames  == 2     \* names 1..MaxNames of the name registry
MaxVol    == 1     \* volumes 0..MaxVol (one gain stands for the cvolume)
MaxQueue  == 2     \* asynchronous messages waiting in the mailbox
MaxBytes  == 2     \* byte counts 0..MaxBytes (rewind, lengths), in frames
MaxUnlinks == 2    \* calls of pa_sink_unlink on the sink
MaxOver   == 3     \* inputs beyond the mix cap in the specification of the mixer
FrameSize == 2     \* bytes of a frame of the sample spec
BlockSizeMax == 5  \* pa_mempool_block_size_max, in bytes
MaxFrames == 3     \* a render is asked for 0..MaxFrames frames
MaxLat    == 3     \* the largest latency bound of the sink; inputs ask for
                   \* up to one more
MaxChunk  == 2     \* an input's peek yields 1..MaxChunk frames
SizeBits  == 6     \* width of size_t, scaled to the lengths here
MaxDrop   == 3     \* inputs of the rosters and info arrays given to inputs_drop

(* constants of the program *)
MAX_MIX_CHANNELS == 32
DEFAULT_MIN_LATENCY == 4      \* in msec
MIX_BUFFER_LENGTH == 2 * FrameSize   \* PA_PAGE_SIZE, scaled to the lengths here

Inputs == 1..MaxInputs
(* every index an input can have, in any specification *)
AllInputs == 1..(MAX_MIX_CHANNELS + MaxOver)
Names  == 1..MaxNames
Vols   == 0..MaxVol
Bytes  == 0..MaxBytes

(* pa_sink_state_t and its two classifying macros *)
States == {"INIT", "IDLE", "RUNNING", "SUSPENDED", "UNLINKED"}
PA_SINK_OPENED(x) == x \in {"IDLE", "RUNNING"}
PA_SINK_LINKED(x) == x \in {"IDLE", "RUNNING", "SUSPENDED"}

VARIABLES
    created,     \* a pa_sink object exists (pa_sink_new returned it)
    name,        \* s->name, 0 while no sink exists
    state,       \* s->state
    cb,          \* the driver callbacks: field TRUE iff the pointer is set
    transport,   \* [asyncmsgq, rtpoll, override]: s->asyncmsgq, s->rtpoll set;
                 \* override: the driver replaced parent.process_msg
    inputs,      \* s->inputs, the control-view roster in index order
    corked,      \* the corked inputs of the roster; s->n_corked is their number
    iput,        \* roster inputs whose ADD_INPUT was delivered (they are "put")
    i_suspend,   \* inputs whose suspend callback is set
    icount,      \* inputs created so far: an input's index is never reused
    volume,      \* s->volume
    muted,       \* s->muted
    refresh,     \* [volume, mute]: s->refresh_volume, s->refresh_mute
    latency,     \* [min, max, queries]: s->min_latency, s->max_latency;
                 \* queries: the callbacks and input hooks that read the
                 \* requested latency of the sink when they are called
    namereg,     \* the name registry: name -> "free" | "other" | "sink"
    core_sinks,  \* the sink is in core->sinks
    monitor,     \* s->monitor_source: "none" | "init" | "linked" (and opened)
                 \* | "suspended" (linked, not opened) | "unlinked"
    thread_info, \* s->thread_info
    ith,         \* per input, the input's own thread_info
    mailbox,     \* the asynchronous messages posted and not yet handled
    trace,       \* events of the last operation
    last,        \* what the last operation was, with its inputs and result
    hist         \* [put, unlinks, vol, mute]: pa_sink_put was called; calls
                 \* of pa_sink_unlink so far; the value of the last
                 \* pa_sink_set_volume / pa_sink_set_mute, set: it was
                 \* posted, read: a get hook replaced the control-side
                 \* value since

vars == <<created, name, state, cb, transport, inputs, corked, iput, i_suspend,
          icount,
          volume, muted, refresh, latency, namereg, core_sinks, monitor, thread_info,
          ith, mailbox, trace, last, hist>>

(* ------------------------------ helpers ------------------------------- *)
Range(f) == {f[k] : k \in DOMAIN f}
Min(a, b) == IF a < b THEN a ELSE b
Max(a, b) == IF a > b THEN a ELSE b
Remove(seq, x) == SelectSeq(seq, LAMBDA y : y # x)

(* An event of the trace: what happened, to which input (0: none), with
   which argument ("" : none). *)
Event(e, i, a, n) == [ev |-> e, i |-> i, arg |-> a, n |-> n]
Ev(e, i, a) == Event(e, i, a, 0)
(* an event that carries a byte count *)
EvN(e, i, n) == Event(e, i, "", n)
Events(tr, e) == SelectSeq(tr, LAMBDA x : x.ev = e)
BoolStr(b) == IF b THEN "TRUE" ELSE "FALSE"

(* reset_callbacks: every driver callback pointer is NULL *)
reset_callbacks ==
    [set_state |-> FALSE, get_volume |-> FALSE, set_volume |-> FALSE,
     get_mute |-> FALSE, set_mute |-> FALSE, get_latency |-> FALSE,
     request_rewind |-> FALSE, update_requested_latency |-> FALSE]

(* the thread_info block as pa_sink_new initialises it *)
ThreadInfoInit(v, m) ==
    [inputs |-> <<>>, soft_volume |-> v, soft_muted |-> m, state |-> "INIT",
     rewind_nbytes |-> 0, max_rewind |-> 0,
     requested_latency_valid |-> FALSE, requested_latency |-> 0]

(* an input's thread_info; requested_sink_latency -1 is the unset value *)
IThreadInit ==
    [attached |-> FALSE, ignore_rewind |-> FALSE, requested_sink_latency |-> -1]

(* the locals of a render pass: *length and mixlength, the pa_mix_info array
   (userdata 0: NULL; memblock: the input whose chunk it is, 0: NULL) with what is left of
   maxinfo, the cursor p and
   n_unreffed of inputs_drop, and the length of the result *)
LocInit ==
    [length |-> 0, mixlength |-> 0, info |-> <<>>, maxinfo |-> 0, p |-> 0,
     n_unreffed |-> 0, result |-> 0]

(* The mutable world the handlers work on, as one record, so that a handler
   that calls another one is the composition of two operators.  ret is the
   handler's return value, ok whether every assertion met so far held. *)
Cur ==
    [created |-> created, name |-> name, state |-> state, cb |-> cb,
     inputs |-> inputs, corked |-> corked, iput |-> iput, volume |-> volume,
     muted |-> muted, namereg |-> namereg, core_sinks |-> core_sinks,
     monitor |-> monitor, thread_info |-> thread_info, ith |-> ith,
     mailbox |-> mailbox, latency |-> latency, loc |-> LocInit,
     trace |-> <<>>, ret |-> 0, ok |-> TRUE, last |-> [op |-> "none"]]

(* The step of an operation: its assertions held (W.ok) and the world is
   what the handler left. *)
Commit(W) ==
    /\ W.ok
    /\ created' = W.created
    /\ name' = W.name
    /\ state' = W.state
    /\ cb' = W.cb
    /\ inputs' = W.inputs
    /\ corked' = W.corked
    /\ iput' = W.iput
    /\ volume' = W.volume
    /\ muted' = W.muted
    /\ namereg' = W.namereg
    /\ core_sinks' = W.core_sinks
    /\ monitor' = W.monitor
    /\ thread_info' = W.thread_info
    /\ ith' = W.ith
    /\ mailbox' = W.mailbox
    /\ latency' = W.latency
    /\ trace' = W.trace
    /\ last' = W.last

Emit(W, e) == [W EXCEPT !.trace = Append(@, e)]
EmitIf(c, W, e) == IF c THEN Emit(W, e) ELSE W
Ret(W, r) == [W EXCEPT !.ret = r]
(* pa_assert(c) *)
Check(W, c) == [W EXCEPT !.ok = @ /\ c]
(* what the operation leaves in last: info, with the handler's result *)
Finish(W, info) == [W EXCEPT !.last = [info EXCEPT !.ret = W.ret]]

Init ==
    /\ created = FALSE
    /\ name = 0
    /\ state = "INIT"
    /\ cb = reset_callbacks
    /\ transport = [asyncmsgq |-> FALSE, rtpoll |-> FALSE, override |-> FALSE]
    /\ inputs = <<>>
    /\ corked = {}
    /\ iput = {}
    /\ i_suspend = {}
    /\ icount = 0
    /\ volume = 0
    /\ muted = FALSE
    /\ refresh = [volume |-> FALSE, mute |-> FALSE]
    /\ latency = [min |-> 0, max |-> 0, queries |-> {}]
    /\ namereg = [n \in Names |-> "free"]
    /\ core_sinks = FALSE
    /\ monitor = "none"
    /\ thread_info = ThreadInfoInit(0, FALSE)
    /\ ith = [i \in AllInputs |-> IThreadInit]
    /\ mailbox = <<>>
    /\ trace = <<>>
    /\ last = [op |-> "init"]
    /\ hist = [put |-> FALSE, unlinks |-> 0,
               vol |-> [set |-> FALSE, v |-> 0, read |-> FALSE],
               mute |-> [set |-> FALSE, v |-> FALSE, read |-> FALSE]]

(* ---------------------- render thread: helpers ------------------------ *)

(* pa_sink_get_requested_latency_within_thread: the smallest latency an
   input of the map asks for (-1: none does), clamped to the sink's bounds *)
LatencyWanted(W) ==
    {W.ith[i].requested_sink_latency : i \in Range(W.thread_info.inputs)}
        \ {-1}

LatencyMin(S) == IF S = {} THEN -1 ELSE CHOOSE x \in S : \A y \in S : x <= y

(* a clamp that forgot min_latency *)
LatencyClampMin_None(r, lat) == r

LatencyClampMax(r, lat) == IF lat.max > 0 /\ r > lat.max THEN lat.max ELSE r
LatencyClampMin(r, lat) == IF lat.min > 0 /\ r < lat.min THEN lat.min ELSE r
LatencyClamp(r, lat) ==
    IF r = -1 THEN -1 ELSE LatencyClampMin(LatencyClampMax(r, lat), lat)

LatencyStore(W, result) ==
    [W EXCEPT !.thread_info.requested_latency = result,
              !.thread_info.requested_latency_valid = TRUE,
              !.ret = result]

pa_sink_get_requested_latency_within_thread(W) ==
    IF W.thread_info.requested_latency_valid
    THEN Ret(W, W.thread_info.requested_latency)
    ELSE LatencyStore(W, LatencyClamp(LatencyMin(LatencyWanted(W)), W.latency))

(* A callback of the driver or a hook of an input has been called: it may
   read the requested latency, which fills the cache. *)
Called(W, e, i) ==
    IF e \in W.latency.queries
    THEN [pa_sink_get_requested_latency_within_thread(
              Emit(Emit(W, Ev(e, i, "")), Ev("query", i, e)))
            EXCEPT !.ret = W.ret]
    ELSE Emit(W, Ev(e, i, ""))

(* pa_sink_request_rewind *)
(* a pa_sink_request_rewind that forgot PA_MIN(nbytes, max_rewind) *)
RewindBytes_NoClamp(ti, n) == IF n <= 0 THEN ti.max_rewind ELSE n

RewindBytes(ti, n) == Min(IF n <= 0 THEN ti.max_rewind ELSE n, ti.max_rewind)

RewindStore(W, nbytes) ==
    IF W.cb.request_rewind
    THEN Called([W EXCEPT !.thread_info.rewind_nbytes = nbytes],
                "request_rewind_cb", 0)
    ELSE [W EXCEPT !.thread_info.rewind_nbytes = nbytes]

(* a pa_sink_request_rewind that stores what it was asked for *)
pa_sink_request_rewind_Raw(W, n) ==
    IF n <= W.thread_info.rewind_nbytes
    THEN Check(W, PA_SINK_LINKED(W.thread_info.state))
    ELSE RewindStore(Check(W, PA_SINK_LINKED(W.thread_info.state)), n)

pa_sink_request_rewind(W, n) ==
    IF RewindBytes(W.thread_info, n) <= W.thread_info.rewind_nbytes
    THEN Check(W, PA_SINK_LINKED(W.thread_info.state))
    ELSE RewindStore(Check(W, PA_SINK_LINKED(W.thread_info.state)),
                     RewindBytes(W.thread_info, n))

(* pa_sink_invalidate_requested_latency *)
(* an invalidation that leaves the cache as it is *)
pa_sink_invalidate_requested_latency_Keep(W) ==
    Check(W, PA_SINK_LINKED(W.thread_info.state))

pa_sink_invalidate_requested_latency(W) ==
    IF ~W.thread_info.requested_latency_valid
    THEN Check(W, PA_SINK_LINKED(W.thread_info.state))
    ELSE IF W.cb.update_requested_latency
    THEN Called([Check(W, PA_SINK_LINKED(W.thread_info.state))
                    EXCEPT !.thread_info.requested_latency_valid = FALSE],
                "update_requested_latency_cb", 0)
    ELSE [Check(W, PA_SINK_LINKED(W.thread_info.state))
             EXCEPT !.thread_info.requested_latency_valid = FALSE]

(* pa_hashmap_put on thread_info.inputs: a key already present is kept as it
   is; a new entry is iterated first. *)
HashmapPut(seq, i) == IF i \in Range(seq) THEN seq ELSE <<i>> \o seq

(* pa_sink_detach_within_thread / pa_sink_attach_within_thread: the callback
   of every input of the render-view map, in iteration order, then the
   monitor source. *)
RECURSIVE CallEach(_, _, _)
CallEach(W, seq, e) ==
    IF seq = <<>> THEN W
    ELSE CallEach(Called(W, e, Head(seq)), Tail(seq), e)

pa_sink_detach_within_thread(W) ==
    EmitIf(W.monitor # "none",
           CallEach(Check(W, PA_SINK_LINKED(W.thread_info.state)),
                    W.thread_info.inputs, "detach"),
           Ev("monitor_detach", 0, ""))

pa_sink_attach_within_thread(W) ==
    EmitIf(W.monitor # "none",
           CallEach(Check(W, PA_SINK_LINKED(W.thread_info.state)),
                    W.thread_info.inputs, "attach"),
           Ev("monitor_attach", 0, ""))

RECURSIVE CallEachN(_, _, _, _)
CallEachN(W, seq, e, n) ==
    IF seq = <<>> THEN W
    ELSE CallEachN(Emit(W, EvN(e, Head(seq), n)), Tail(seq), e, n)

(* pa_sink_set_max_rewind *)
pa_sink_set_max_rewind(W, max_rewind) ==
    IF max_rewind = W.thread_info.max_rewind THEN W
    ELSE EmitIf(W.monitor # "none",
                CallEachN([W EXCEPT !.thread_info.max_rewind = max_rewind],
                          W.thread_info.inputs, "update_max_rewind",
                          max_rewind),
                EvN("monitor_set_max_rewind", 0, max_rewind))

(* pa_sink_process_rewind *)
pa_sink_process_rewind(W, nbytes) ==
    IF nbytes <= 0 THEN Check(W, PA_SINK_LINKED(W.state))
    ELSE EmitIf(W.monitor = "linked",
                CallEachN(Check(W, PA_SINK_LINKED(W.state)),
                          W.thread_info.inputs, "process_rewind", nbytes),
                EvN("monitor_process_rewind", 0, nbytes))

(* ------------------ render thread: pa_sink_process_msg ---------------- *)

Msg(c, a) == [code |-> c, arg |-> a]

(* ADD_INPUT up to the call of the attach callback *)
AddInputAttach(W, i) ==
    Called(Emit([Check(W, ~W.ith[i].attached)
                    EXCEPT !.thread_info.inputs = HashmapPut(@, i),
                           !.ith[i].attached = TRUE],
                EvN("update_max_rewind", i, W.thread_info.max_rewind)),
           "attach", i)

SetIgnoreRewind(W, i) == [W EXCEPT !.ith[i].ignore_rewind = TRUE]

MsgAddInput(W, i) ==
    Ret(pa_sink_request_rewind(
            SetIgnoreRewind(
                pa_sink_invalidate_requested_latency(AddInputAttach(W, i)),
                i),
            0),
        0)

(* REMOVE_INPUT up to pa_hashmap_remove *)
(* a REMOVE_INPUT that leaves the input in the map *)
RemoveInputDetach_Keep(W, i) ==
    [Check(Called(W, "detach", i), W.ith[i].attached)
        EXCEPT !.ith[i].attached = FALSE]

RemoveInputDetach(W, i) ==
    [Check(Called(W, "detach", i), W.ith[i].attached)
        EXCEPT !.ith[i].attached = FALSE,
               !.thread_info.inputs = Remove(@, i)]

MsgRemoveInput(W, i) ==
    Ret(pa_sink_request_rewind(
            pa_sink_invalidate_requested_latency(RemoveInputDetach(W, i)), 0),
        0)

(* REMOVE_INPUT_AND_BUFFER.  info: the input that moves away (sink_input), the
   ghost that plays what is left of it (ghost, 0: none), buffer_bytes, and
   what the input and the buffer answer: every peek yields len bytes, except
   that the peek_fail-th peek fails and the push_fail-th push fails (0:
   none does). *)
(* a drain that drops the whole chunk, not what is left of buffer_bytes *)
MovePeekDrop_Whole(W, info, left, n) ==
    Emit(Emit(W, Event("peek", info.sink_input, "audio", left)),
         EvN("drop", info.sink_input, info.len))

MovePeekDrop(W, info, left, n) ==
    Emit(Emit(W, Event("peek", info.sink_input, "audio", left)),
         EvN("drop", info.sink_input, n))

RECURSIVE MoveDrain(_, _, _, _)
MoveDrain(W, info, left, k) ==
    IF left <= 0 THEN W
    ELSE IF info.peek_fail = k
    THEN Emit(W, Event("peek", info.sink_input, "fail", left))
    ELSE IF info.push_fail = k
    THEN Emit(MovePeekDrop(W, info, left, Min(info.len, left)),
              Event("push", info.ghost, "fail", Min(info.len, left)))
    ELSE MoveDrain(Emit(MovePeekDrop(W, info, left, Min(info.len, left)),
                        Event("push", info.ghost, "ok", Min(info.len, left))),
                   info, left - Min(info.len, left), k + 1)

MoveBuffer(W, info) ==
    IF info.ghost = 0 THEN W
    ELSE Emit(Emit(MoveDrain(Check(W, info.buffer_bytes > 0), info,
                             info.buffer_bytes, 1),
                   Ev("splice", info.sink_input, "")),
              Ev("set_queue", info.ghost, ""))

MoveDetach(W, i) ==
    pa_sink_invalidate_requested_latency(
        [Check(Called(W, "detach", i), W.ith[i].attached)
            EXCEPT !.ith[i].attached = FALSE])

MoveRemove(W, i) == [W EXCEPT !.thread_info.inputs = Remove(@, i)]

MoveGhost(W, g) ==
    IF g = 0 THEN W
    ELSE Called(Emit([Check(W, ~W.ith[g].attached)
                         EXCEPT !.thread_info.inputs = HashmapPut(@, g),
                                !.ith[g].attached = TRUE],
                     EvN("update_max_rewind", g, W.thread_info.max_rewind)),
                "attach", g)

MsgRemoveInputAndBuffer(W, info) ==
    Ret(pa_sink_request_rewind(
            pa_sink_invalidate_requested_latency(
                MoveGhost(MoveRemove(MoveBuffer(MoveDetach(W, info.sink_input),
                                                info),
                                     info.sink_input),
                          info.ghost)),
            0),
        0)

MsgSetVolume(W, v) ==
    Ret(pa_sink_request_rewind([W EXCEPT !.thread_info.soft_volume = v], 0), 0)

MsgSetMute(W, m) ==
    Ret(pa_sink_request_rewind([W EXCEPT !.thread_info.soft_muted = m], 0), 0)

MsgSetState(W, x) == [W EXCEPT !.thread_info.state = x, !.ret = 0]

(* GET_REQUESTED_LATENCY: *usec = the latency (kept in loc.result); return 0 *)
LatencyReply(W) == [W EXCEPT !.loc.result = W.ret, !.ret = 0]

Dispatch(W, m) ==
    CASE m.code = "ADD_INPUT"    -> MsgAddInput(W, m.arg)
      [] m.code = "REMOVE_INPUT" -> MsgRemoveInput(W, m.arg)
      [] m.code = "REMOVE_INPUT_AND_BUFFER" -> MsgRemoveInputAndBuffer(W, m.arg)
      [] m.code = "SET_VOLUME"   -> MsgSetVolume(W, m.arg)
      [] m.code = "SET_MUTE"     -> MsgSetMute(W, m.arg)
      [] m.code = "GET_VOLUME"   ->
            [W EXCEPT !.volume = W.thread_info.soft_volume, !.ret = 0]
      [] m.code = "GET_MUTE"     ->
            [W EXCEPT !.muted = W.thread_info.soft_muted, !.ret = 0]
      [] m.code = "SET_STATE"    -> MsgSetState(W, m.arg)
      [] m.code = "DETACH"       -> Ret(pa_sink_detach_within_thread(W), 0)
      [] m.code = "ATTACH"       -> Ret(pa_sink_attach_within_thread(W), 0)
      [] m.code = "GET_REQUESTED_LATENCY" ->
            LatencyReply(pa_sink_get_requested_latency_within_thread(W))
      [] OTHER                   -> Ret(W, -1)

(* the input a message is about, and the ghost it brings (0: none) *)
MsgInput(m) ==
    IF m.code \in {"ADD_INPUT", "REMOVE_INPUT"} THEN m.arg
    ELSE IF m.code = "REMOVE_INPUT_AND_BUFFER" THEN m.arg.sink_input
    ELSE 0

MsgGhost(m) ==
    IF m.code = "REMOVE_INPUT_AND_BUFFER" THEN m.arg.ghost ELSE 0

pa_sink_process_msg(W, m) ==
    Dispatch(Check(Emit(W, Event("msg", MsgInput(m), m.code, MsgGhost(m))),
                   W.thread_info.state # "UNLINKED"),
             m)

(* The render thread works the mailbox off in FIFO order. *)
RECURSIVE Drain(_)
Drain(W) ==
    IF W.mailbox = <<>> THEN W
    ELSE Drain(pa_sink_process_msg([W EXCEPT !.mailbox = Tail(@)],
                                   Head(W.mailbox)))

(* pa_asyncmsgq_send: the message is queued behind the posted ones and the
   sender sleeps until it has been handled; the result is the handler's.  A
   driver that replaced parent.process_msg may refuse the message (ok =
   FALSE) before it reaches pa_sink_process_msg. *)
Handle(W, m, ok) == IF ok THEN pa_sink_process_msg(W, m) ELSE Ret(W, -1)

SendSync(W, m, ok) == Handle(Drain(Emit(W, Ev("send", 0, m.code))), m, ok)

(* pa_asyncmsgq_post *)
PostAsync(W, m) ==
    Emit([W EXCEPT !.mailbox = Append(@, m)], Ev("post", 0, m.code))

(* ------------------- render thread: the mix pipeline ------------------ *)

pa_frame_align(l) == (l \div FrameSize) * FrameSize
pa_frame_aligned(l) == l % FrameSize = 0

(* the cached silence chunk is one block of the pool, cut to whole frames *)
SilenceLength == pa_frame_align(BlockSizeMax)

(* What pa_sink_input_peek gives for an input in one pass: it fails, or it
   returns a chunk of len bytes that is silence or audio. *)
ChunkLengths == {f * FrameSize : f \in 1..MaxChunk}
PeekOutcomes ==
    {[kind |-> "fail", len |-> 0]}
        \cup [kind : {"silence", "audio"}, len : ChunkLengths]

(* fill_mix_info: one turn of the loop for input i whose peek gives o *)
MixLength(mixlength, len) ==
    IF mixlength = 0 \/ len < mixlength THEN len ELSE mixlength

FillStep(W, i, o) ==
    IF o.kind = "fail" THEN Emit(W, Event("peek", i, "fail", 0))
    ELSE IF o.kind = "silence"
    THEN Emit([W EXCEPT !.loc.mixlength = MixLength(@, o.len)],
              Event("peek", i, "silence", o.len))
    ELSE Emit([W EXCEPT !.loc.mixlength = MixLength(@, o.len),
                        !.loc.info = Append(@, [userdata |-> i, len |-> o.len,
                                                memblock |-> i]),
                        !.loc.maxinfo = @ - 1],
              Event("peek", i, "audio", o.len))

RECURSIVE FillLoop(_, _, _)
FillLoop(W, plan, k) ==
    IF k > Len(W.thread_info.inputs) \/ W.loc.maxinfo <= 0 THEN W
    ELSE FillLoop(FillStep(W, W.thread_info.inputs[k],
                           plan[W.thread_info.inputs[k]]),
                  plan, k + 1)

FillEnd(W) ==
    IF W.loc.mixlength > 0 THEN [W EXCEPT !.loc.length = W.loc.mixlength]
    ELSE W

fill_mix_info(W, plan, maxinfo) ==
    FillEnd(FillLoop([W EXCEPT !.loc.mixlength = W.loc.length,
                               !.loc.info = <<>>, !.loc.maxinfo = maxinfo],
                     plan, 1))

(* inputs_drop: the search of the info array for input i starts at the
   cursor p and wraps around; InfoFind is the set of steps j after which the
   entry under the cursor is i. *)
InfoAt(info, p, j) == ((p + j) % Len(info)) + 1
InfoFind(info, p, i) ==
    {j \in 0..(Len(info) - 1) : info[InfoAt(info, p, j)].userdata = i}
MinOf(S) == CHOOSE x \in S : \A y \in S : x <= y

DropUnref(W, i, at) ==
    EmitIf(W.loc.info[at].memblock # 0,
           Emit([W EXCEPT !.loc.p = at - 1, !.loc.info[at].userdata = 0,
                          !.loc.info[at].memblock = 0,
                          !.loc.n_unreffed = @ + 1],
                Ev("unref", i, "")),
           Ev("unref_chunk", W.loc.info[at].memblock, ""))

(* an inputs_drop that advances only the inputs found in the info array *)
DropStep_FoundOnly(W, i, length, found) ==
    IF found = {} THEN W
    ELSE DropUnref(Emit(W, EvN("drop", i, length)), i,
                   InfoAt(W.loc.info, W.loc.p, MinOf(found)))

DropStep(W, i, length, found) ==
    IF found = {} THEN Emit(W, EvN("drop", i, length))
    ELSE DropUnref(Emit(W, EvN("drop", i, length)), i,
                   InfoAt(W.loc.info, W.loc.p, MinOf(found)))

RECURSIVE DropLoop(_, _, _)
DropLoop(W, length, k) ==
    IF k > Len(W.thread_info.inputs) THEN W
    ELSE DropLoop(DropStep(W, W.thread_info.inputs[k], length,
                           InfoFind(W.loc.info, W.loc.p,
                                    W.thread_info.inputs[k])),
                  length, k + 1)

RECURSIVE DropRest(_, _)
DropRest(W, k) ==
    IF k > Len(W.loc.info) THEN W
    ELSE DropRest(EmitIf(W.loc.info[k].memblock # 0,
                         EmitIf(W.loc.info[k].userdata # 0, W,
                                Ev("unref", W.loc.info[k].userdata, "stale")),
                         Ev("unref_chunk", W.loc.info[k].memblock, "stale")),
                  k + 1)

(* an inputs_drop without the second loop *)
DropEnd_None(W) == W

DropEnd(W) == IF W.loc.n_unreffed < Len(W.loc.info) THEN DropRest(W, 1) ELSE W

inputs_drop(W, length) ==
    DropEnd(DropLoop([W EXCEPT !.loc.p = 0, !.loc.n_unreffed = 0], length, 1))

(* pa_mix (sample-util.c is not part of the sources at hand) mixes until
   the shortest stream ends, length bytes at most, and returns how many. *)
pa_mix(info, length) ==
    Min(length, MinOf({info[k].len : k \in DOMAIN info}))

(* the length a pass works with: the default for 0, one block at most *)
RenderDefault(length) ==
    IF length <= 0 THEN pa_frame_align(MIX_BUFFER_LENGTH) ELSE length
(* a pass that takes any length as it is *)
RenderClamp_None(length) == length

RenderClamp(length) ==
    IF length > BlockSizeMax THEN pa_frame_align(BlockSizeMax) ELSE length

RenderMix(W, plan) ==
    IF W.thread_info.state = "RUNNING"
    THEN fill_mix_info(W, plan, MAX_MIX_CHANNELS)
    ELSE W

(* result->length of pa_sink_render *)
RenderResult(W) ==
    [W EXCEPT !.loc.result =
        IF Len(W.loc.info) = 0 THEN Min(SilenceLength, W.loc.length)
        ELSE IF Len(W.loc.info) = 1 THEN Min(W.loc.info[1].len, W.loc.length)
        ELSE pa_mix(W.loc.info, W.loc.length)]

RenderDrop(W) ==
    IF W.thread_info.state = "RUNNING" THEN inputs_drop(W, W.loc.result)
    ELSE W

(* the pass is over: its result, posted to the monitor source if that is
   opened *)
(* a pass that posts whatever the monitor source's state *)
RenderPost_Always(W) ==
    Emit(Ret(Emit(W, EvN("result", 0, W.loc.result)), W.loc.result),
         EvN("monitor_post", 0, W.loc.result))

RenderPost(W) ==
    EmitIf(W.monitor = "linked",
           Ret(Emit(W, EvN("result", 0, W.loc.result)), W.loc.result),
           EvN("monitor_post", 0, W.loc.result))

RenderStart(W, length, asserts) ==
    Emit([Check(W, asserts)
             EXCEPT !.thread_info.rewind_nbytes = 0,
                    !.loc = [LocInit EXCEPT !.length = length]],
         EvN("pass", 0, length))

pa_sink_render(W, length, plan) ==
    RenderPost(RenderDrop(RenderResult(RenderMix(
        RenderStart(W, RenderClamp(RenderDefault(length)),
                    /\ PA_SINK_OPENED(W.thread_info.state)
                    /\ pa_frame_aligned(length)
                    /\ RenderClamp(RenderDefault(length)) > 0),
        plan))))

(* target->length of pa_sink_render_into *)
RenderIntoResult(W, target_length) ==
    [W EXCEPT !.loc.result =
        IF Len(W.loc.info) <= 1 THEN Min(target_length, W.loc.length)
        ELSE pa_mix(W.loc.info, W.loc.length)]

pa_sink_render_into(W, target_length, plan) ==
    RenderPost(RenderDrop(RenderIntoResult(RenderMix(
        RenderStart(W, RenderClamp(target_length),
                    /\ PA_SINK_OPENED(W.thread_info.state)
                    /\ target_length > 0
                    /\ pa_frame_aligned(target_length)),
        plan), target_length)))

(* pa_sink_render_into_full: l bytes are left to fill and d are filled; the
   pass is given the target from offset d on ("suffix": i is the offset, n
   the length), and what it made of chunk.length is taken from l (a size_t)
   and added to d. *)
SizeMod(n) == n % (2 ^ SizeBits)

FullChunk(W, target_length, d) ==
    Emit(W, Event("suffix", d, "", SizeMod(target_length - d)))

(* a loop that ends after its first pass *)
RenderIntoFullNext_Once(W, target_length, l, d, plan) == W

RECURSIVE RenderIntoFullLoop(_, _, _, _, _)
RenderIntoFullNext(W, target_length, l, d, plan) ==
    RenderIntoFullLoop(W, target_length, SizeMod(l - W.loc.result),
                       SizeMod(d + W.loc.result), plan)

RenderIntoFullLoop(W, target_length, l, d, plan) ==
    IF l <= 0 THEN W
    ELSE RenderIntoFullNext(
            pa_sink_render_into(FullChunk(W, target_length, d),
                                SizeMod(target_length - d), plan),
            target_length, l, d, plan)

pa_sink_render_into_full(W, target_length, plan) ==
    Ret(RenderIntoFullLoop(
            [Check(W, /\ PA_SINK_OPENED(W.thread_info.state)
                      /\ target_length > 0
                      /\ pa_frame_aligned(target_length))
                EXCEPT !.thread_info.rewind_nbytes = 0],
            target_length, target_length, 0, plan),
        0)

(* pa_sink_render_full: a new block of length bytes is the target *)
pa_sink_render_full(W, length, plan) ==
    pa_sink_render_into_full(
        Emit([Check(W, /\ PA_SINK_OPENED(W.thread_info.state)
                       /\ length > 0
                       /\ pa_frame_aligned(length))
                 EXCEPT !.thread_info.rewind_nbytes = 0],
             EvN("memblock_new", 0, length)),
        length, plan)

(* pa_sink_skip.  used: the monitor source has consumers
   (pa_source_used_by); every pass of the loop gets the inputs' answers of
   plan. *)
RECURSIVE SkipRender(_, _, _)
SkipNext(W, length, plan) ==
    SkipRender(Check(W, W.loc.result <= length), length - W.loc.result, plan)

SkipRender(W, length, plan) ==
    IF length <= 0 THEN W
    ELSE SkipNext(pa_sink_render(W, length, plan), length, plan)

SkipStart(W, length) ==
    [Check(W, /\ PA_SINK_OPENED(W.thread_info.state)
              /\ length > 0
              /\ pa_frame_aligned(length))
        EXCEPT !.thread_info.rewind_nbytes = 0]

pa_sink_skip(W, length, used, plan) ==
    IF used THEN Ret(SkipRender(SkipStart(W, length), length, plan), 0)
    ELSE CallEachN(SkipStart(W, length), W.thread_info.inputs, "drop", length)

(* ------------------------- sink_set_state ----------------------------- *)

RECURSIVE SuspendEach(_, _, _)
SuspendEach(W, seq, b) ==
    IF seq = <<>> THEN W
    ELSE SuspendEach(EmitIf(Head(seq) \in i_suspend, W,
                            Ev("suspend", Head(seq), BoolStr(b))),
                     Tail(seq), b)

(* a sink_set_state that takes every change of state for a suspend change *)
SuspendChange_Any(old, new) == old # new

SuspendChange(old, new) ==
    \/ old = "SUSPENDED" /\ PA_SINK_OPENED(new)
    \/ PA_SINK_OPENED(old) /\ new = "SUSPENDED"

(* sink_set_state from the store of s->state on *)
SetStateNotify(W, target, suspend_change) ==
    EmitIf(target # "UNLINKED",
           IF suspend_change
           THEN SuspendEach(W, W.inputs, target = "SUSPENDED")
           ELSE W,
           Ev("hook", 0, "SINK_STATE_CHANGED"))

SetStateStore(W, target, suspend_change) ==
    IF W.ret < 0 THEN Ret(W, -1)
    ELSE Ret(SetStateNotify(Emit([W EXCEPT !.state = target],
                                 Ev("store_state", 0, target)),
                            target, suspend_change),
             0)

(* a sink_set_state that sends SET_STATE before it asks the driver's hook *)
sink_set_state_SendFirst(W, target, hook_ok, msg_ok) ==
    IF W.state = target THEN Ret(W, 0)
    ELSE IF W.cb.set_state /\ ~hook_ok
    THEN Ret(Emit(SendSync(W, Msg("SET_STATE", target), msg_ok),
                  Ev("set_state_cb", 0, target)), -1)
    ELSE SetStateStore(
            SendSync(EmitIf(W.cb.set_state, W, Ev("set_state_cb", 0, target)),
                     Msg("SET_STATE", target), msg_ok),
            target, SuspendChange(W.state, target))

sink_set_state(W, target, hook_ok, msg_ok) ==
    IF W.state = target THEN Ret(W, 0)
    ELSE IF W.cb.set_state /\ ~hook_ok
    THEN Ret(Emit(W, Ev("set_state_cb", 0, target)), -1)
    ELSE SetStateStore(
            SendSync(EmitIf(W.cb.set_state, W, Ev("set_state_cb", 0, target)),
                     Msg("SET_STATE", target), msg_ok),
            target, SuspendChange(W.state, target))

(* The outcomes the environment may give a state transition: the driver's
   hook can fail only when one is set, the message only when the driver
   replaced the handler. *)
HookOutcomes == IF cb.set_state THEN BOOLEAN ELSE {TRUE}
MsgOutcomes  == IF transport.override THEN BOOLEAN ELSE {TRUE}

(* what an operation that may change the state leaves in last *)
StateOp(op, target, hook_ok, msg_ok) ==
    [op |-> op, target |-> target, old_state |-> state,
     old_ti_state |-> thread_info.state,
     hook_failed |-> (state # target /\ cb.set_state /\ ~hook_ok),
     msg_failed |-> (state # target /\ (cb.set_state => hook_ok) /\ ~msg_ok),
     ret |-> 0]

(* ---------------------- control thread: inputs ------------------------ *)
(* sink-input.c is not part of the sources at hand.  An input is linked to
   the roster when it is created, delivered to the render thread by a
   synchronous ADD_INPUT when it is put, and taken out of the roster, with a
   synchronous REMOVE_INPUT if it had been put, when it is unlinked. *)

pa_sink_input_unlink(W, i) ==
    IF i \in W.iput
    THEN SendSync([W EXCEPT !.inputs = Remove(@, i), !.corked = @ \ {i},
                            !.iput = @ \ {i}],
                  Msg("REMOVE_INPUT", i), TRUE)
    ELSE [W EXCEPT !.inputs = Remove(@, i), !.corked = @ \ {i}]

pa_sink_input_kill(W, i) == pa_sink_input_unlink(Emit(W, Ev("kill", i, "")), i)

(* ------------------- control thread: the name registry ---------------- *)
(* namereg.c is not part of the sources at hand.  A free name is taken; a
   taken one makes the registration fail when fail is set, and is replaced
   by another free name otherwise (0: NULL, no name). *)
FreeNames(reg) == {n \in Names : reg[n] = "free"}

pa_namereg_register(reg, nm, fail) ==
    IF reg[nm] = "free" THEN nm
    ELSE IF fail \/ FreeNames(reg) = {} THEN 0
    ELSE CHOOSE n \in FreeNames(reg) : \A k \in FreeNames(reg) : n <= k

(* another object takes a name *)
NameregOther(n) ==
    /\ namereg[n] = "free"
    /\ namereg' = [namereg EXCEPT ![n] = "other"]
    /\ trace' = <<>>
    /\ last' = [op |-> "namereg_other"]
    /\ UNCHANGED <<created, name, state, cb, transport, inputs, corked, iput,
                   i_suspend, icount, volume, muted, refresh, latency, core_sinks,
                   monitor, thread_info, ith, mailbox, hist>>

(* ----------------------- pa_sink_unlink ------------------------------- *)

(* a pa_sink_unlink that leaves the inputs alone *)
KillAll_None(W) == W

RECURSIVE KillAll(_)
KillAll(W) ==
    IF W.inputs = <<>> THEN W ELSE KillAll(pa_sink_input_kill(W, Head(W.inputs)))

(* pa_sink_unlink up to the removal from core->sinks *)
UnlinkRegistrations(W) ==
    IF W.state # "UNLINKED"
    THEN Emit([W EXCEPT !.namereg[W.name] = "free", !.core_sinks = FALSE],
              Ev("namereg_unregister", 0, ""))
    ELSE [W EXCEPT !.core_sinks = FALSE]

UnlinkSetState(W, linked, hook_ok, msg_ok) ==
    IF linked THEN sink_set_state(W, "UNLINKED", hook_ok, msg_ok)
    ELSE [W EXCEPT !.state = "UNLINKED"]

(* reset_callbacks(s) and pa_source_unlink(s->monitor_source) *)
UnlinkReset(W) ==
    [W EXCEPT !.cb = reset_callbacks,
              !.monitor = IF @ # "none" THEN "unlinked" ELSE @]

UnlinkPost(W, linked) ==
    IF linked
    THEN Emit(Emit(W, Ev("subscription", 0, "REMOVE")),
              Ev("hook", 0, "SINK_UNLINK_POST"))
    ELSE W

pa_sink_unlink(W, hook_ok, msg_ok) ==
    UnlinkPost(
        UnlinkReset(
            UnlinkSetState(
                KillAll(UnlinkRegistrations(
                    EmitIf(PA_SINK_LINKED(W.state), W,
                           Ev("hook", 0, "SINK_UNLINK")))),
                PA_SINK_LINKED(W.state), hook_ok, msg_ok)),
        PA_SINK_LINKED(W.state))

Unlink ==
    /\ created
    /\ hist.unlinks < MaxUnlinks
    /\ \E hook_ok \in HookOutcomes, msg_ok \in MsgOutcomes :
         Commit(Finish(pa_sink_unlink(Cur, hook_ok, msg_ok),
                       StateOp("unlink", "UNLINKED",
                               hook_ok \/ ~PA_SINK_LINKED(state),
                               msg_ok \/ ~PA_SINK_LINKED(state))))
    /\ hist' = [hist EXCEPT !.unlinks = @ + 1]
    /\ UNCHANGED <<transport, i_suspend, icount, refresh>>

(* -------------------------- pa_sink_new ------------------------------- *)

(* What can go wrong in pa_sink_new, in the order the code looks at it.  A
   call has at most one first failure, so one fault per call covers every
   path through the function. *)
Validations == {"driver", "name", "sample_spec", "channel_map", "volume"}
Faults == {"none", "new_veto", "fixate_veto", "monitor"} \cup Validations

(* pa_sink_new from the initialisation of the fields on *)
NewInit(W, got, fault, v, m) ==
    IF fault = "monitor"
    THEN \* pa_sink_unlink(s); pa_sink_unref(s); return NULL
         [pa_sink_unlink([W EXCEPT !.created = TRUE, !.name = got,
                                   !.state = "INIT", !.core_sinks = TRUE],
                         TRUE, TRUE)
            EXCEPT !.created = FALSE, !.name = 0, !.state = "INIT",
                   !.ret = -1]
    ELSE [W EXCEPT !.created = TRUE, !.name = got, !.state = "INIT",
                   !.inputs = <<>>, !.corked = {}, !.iput = {},
                   !.volume = v, !.muted = m, !.cb = reset_callbacks,
                   !.thread_info = ThreadInfoInit(v, m),
                   !.latency = [min |-> DEFAULT_MIN_LATENCY,
                                max |-> DEFAULT_MIN_LATENCY,
                                queries |-> {}],
                   !.core_sinks = TRUE, !.monitor = "init", !.ret = 0]

(* pa_sink_new after the name was registered as got *)
NewRegistered(W, got, fault, v, m) ==
    IF fault = "new_veto"
    THEN [W EXCEPT !.namereg[got] = "free", !.ret = -1]
    ELSE IF fault \in Validations
    THEN Ret(W, -1)                       \* pa_return_null_if_fail
    ELSE IF fault = "fixate_veto"
    THEN [Emit(W, Ev("hook", 0, "SINK_FIXATE"))
            EXCEPT !.namereg[got] = "free", !.ret = -1]
    ELSE NewInit(Emit(W, Ev("hook", 0, "SINK_FIXATE")), got, fault, v, m)

NewRegister(W, got, fault, v, m) ==
    IF got = 0 THEN Ret(W, -1)
    ELSE NewRegistered(Emit([W EXCEPT !.namereg[got] = "sink"],
                            Ev("hook", 0, "SINK_NEW")),
                       got, fault, v, m)

pa_sink_new(W, nm, fail, fault, v, m) ==
    NewRegister(W, pa_namereg_register(W.namereg, nm, fail), fault, v, m)

New(NameSet, FaultSet, VolSet, MuteSet) ==
    /\ ~created
    /\ hist.unlinks = 0
    /\ \E nm \in NameSet, fail \in BOOLEAN, fault \in FaultSet, v \in VolSet,
          m \in MuteSet :
         Commit(Finish(pa_sink_new(Cur, nm, fail, fault, v, m),
                       [op |-> "new", fault |-> fault, ret |-> 0]))
    /\ UNCHANGED <<transport, i_suspend, icount, refresh, hist>>

(* ------------- the driver sets the sink up before pa_sink_put ---------- *)

pa_sink_set_asyncmsgq ==
    /\ created
    /\ ~transport.asyncmsgq
    /\ transport' = [transport EXCEPT !.asyncmsgq = TRUE]
    /\ trace' = <<>>
    /\ last' = [op |-> "set_asyncmsgq"]
    /\ UNCHANGED <<created, name, state, cb, inputs, corked, iput, i_suspend,
                   icount, volume, muted, refresh, latency, namereg, core_sinks,
                   monitor, thread_info, ith, mailbox, hist>>

pa_sink_set_rtpoll ==
    /\ created
    /\ ~transport.rtpoll
    /\ transport' = [transport EXCEPT !.rtpoll = TRUE]
    /\ trace' = <<>>
    /\ last' = [op |-> "set_rtpoll"]
    /\ UNCHANGED <<created, name, state, cb, inputs, corked, iput, i_suspend,
                   icount, volume, muted, refresh, latency, namereg, core_sinks,
                   monitor, thread_info, ith, mailbox, hist>>

(* The driver stores a callback pointer (s->set_state = ..., ...) between
   pa_sink_new and pa_sink_put. *)
DriverSetCallback(c) ==
    /\ created
    /\ state = "INIT"
    /\ ~cb[c]
    /\ cb' = [cb EXCEPT ![c] = TRUE]
    /\ trace' = <<>>
    /\ last' = [op |-> "set_callback"]
    /\ UNCHANGED <<created, name, state, transport, inputs, corked, iput,
                   i_suspend, icount, volume, muted, refresh, latency, namereg,
                   core_sinks, monitor, thread_info, ith, mailbox, hist>>

(* The driver sets s->min_latency and s->max_latency before pa_sink_put;
   queries: which of its callbacks, and of the hooks of the inputs, read
   the requested latency of the sink when they are called. *)
HookNames ==
    {"attach", "detach", "update_requested_latency_cb", "request_rewind_cb"}

DriverSetLatency(Pairs, Queries) ==
    /\ created
    /\ state = "INIT"
    /\ latency.queries = {}
    /\ \E b \in Pairs, q \in Queries :
          /\ q # {}
          /\ latency' = [min |-> b[1], max |-> b[2], queries |-> q]
    /\ trace' = <<>>
    /\ last' = [op |-> "set_latency"]
    /\ UNCHANGED <<created, name, state, cb, transport, inputs, corked, iput,
                   i_suspend, icount, volume, muted, refresh, namereg,
                   core_sinks, monitor, thread_info, ith, mailbox, hist>>

(* The driver replaces s->parent.process_msg by a handler of its own, which
   may refuse a SET_STATE. *)
DriverOverrideProcessMsg ==
    /\ created
    /\ state = "INIT"
    /\ ~transport.override
    /\ transport' = [transport EXCEPT !.override = TRUE]
    /\ trace' = <<>>
    /\ last' = [op |-> "override_process_msg"]
    /\ UNCHANGED <<created, name, state, cb, inputs, corked, iput, i_suspend,
                   icount, volume, muted, refresh, latency, namereg, core_sinks,
                   monitor, thread_info, ith, mailbox, hist>>

(* --------------------------- pa_sink_put ------------------------------ *)

(* a pa_sink_put that forgot pa_assert(s->state == PA_SINK_INIT) *)
PutAsserts_NoInit(W) ==
    /\ transport.asyncmsgq
    /\ transport.rtpoll
    /\ W.latency.min = 0 \/ W.latency.max = 0
          \/ W.latency.min <= W.latency.max

PutAsserts(W) ==
    /\ W.state = "INIT"
    /\ transport.asyncmsgq
    /\ transport.rtpoll
    /\ W.latency.min = 0 \/ W.latency.max = 0
          \/ W.latency.min <= W.latency.max

(* pa_sink_put after pa_assert_se(sink_set_state(s, PA_SINK_IDLE) == 0) *)
PutPublish(W) ==
    Emit(Emit([Check(W, W.ret = 0) EXCEPT !.monitor = "linked"],
              Ev("subscription", 0, "NEW")),
         Ev("hook", 0, "SINK_PUT"))

pa_sink_put(W, hook_ok, msg_ok) ==
    PutPublish(sink_set_state(Check(W, PutAsserts(W)), "IDLE", hook_ok, msg_ok))

Put ==
    /\ created
    /\ \E hook_ok \in HookOutcomes, msg_ok \in MsgOutcomes :
         Commit(Finish(pa_sink_put(Cur, hook_ok, msg_ok),
                       StateOp("put", "IDLE", hook_ok, msg_ok)))
    /\ hist' = [hist EXCEPT !.put = TRUE]
    /\ UNCHANGED <<transport, i_suspend, icount, refresh>>

(* ------------- pa_sink_update_status / pa_sink_suspend ---------------- *)

pa_sink_used_by(W) == Len(W.inputs) - Cardinality(W.corked)

(* a target that does not look at the corked inputs *)
StatusTarget_All(W) == IF Len(W.inputs) > 0 THEN "RUNNING" ELSE "IDLE"

StatusTarget(W) == IF pa_sink_used_by(W) > 0 THEN "RUNNING" ELSE "IDLE"

pa_sink_update_status(W, hook_ok, msg_ok) ==
    IF W.state = "SUSPENDED" THEN Ret(Check(W, PA_SINK_LINKED(W.state)), 0)
    ELSE sink_set_state(Check(W, PA_SINK_LINKED(W.state)), StatusTarget(W),
                        hook_ok, msg_ok)

pa_sink_suspend(W, suspend, hook_ok, msg_ok) ==
    sink_set_state(Check(W, PA_SINK_LINKED(W.state)),
                   IF suspend THEN "SUSPENDED" ELSE StatusTarget(W),
                   hook_ok, msg_ok)

UpdateStatus ==
    /\ created
    /\ \E hook_ok \in HookOutcomes, msg_ok \in MsgOutcomes :
         Commit(Finish(pa_sink_update_status(Cur, hook_ok, msg_ok),
                       StateOp("update_status",
                               IF state = "SUSPENDED" THEN state
                               ELSE StatusTarget(Cur),
                               hook_ok, msg_ok)))
    /\ UNCHANGED <<transport, i_suspend, icount, refresh, hist>>

Suspend(suspend) ==
    /\ created
    /\ \E hook_ok \in HookOutcomes, msg_ok \in MsgOutcomes :
         Commit(Finish(pa_sink_suspend(Cur, suspend, hook_ok, msg_ok),
                       StateOp("suspend",
                               IF suspend THEN "SUSPENDED"
                               ELSE StatusTarget(Cur),
                               hook_ok, msg_ok)
                         @@ [suspend |-> suspend]))
    /\ UNCHANGED <<transport, i_suspend, icount, refresh, hist>>

(* pa_sink_suspend_all: pa_sink_suspend on every sink of core->sinks (one sink
   at most here); the result counts the calls that failed *)
SuspendAllRet(W) == Ret(W, IF W.ret < 0 THEN -1 ELSE 0)

pa_sink_suspend_all(W, suspend, hook_ok, msg_ok) ==
    IF W.core_sinks
    THEN SuspendAllRet(pa_sink_suspend(W, suspend, hook_ok, msg_ok))
    ELSE Ret(W, 0)

SuspendAll(suspend) ==
    /\ \E hook_ok \in HookOutcomes, msg_ok \in MsgOutcomes :
         Commit(Finish(pa_sink_suspend_all(Cur, suspend, hook_ok, msg_ok),
                       StateOp("suspend_all",
                               IF suspend THEN "SUSPENDED"
                               ELSE StatusTarget(Cur),
                               hook_ok, msg_ok)
                         @@ [suspend |-> suspend, indexed |-> core_sinks]))
    /\ UNCHANGED <<transport, i_suspend, icount, refresh, hist>>

(* ----------------- control thread: input operations ------------------- *)

InputNew(has_suspend) ==
    /\ created
    /\ PA_SINK_LINKED(state)
    /\ icount < MaxInputs
    /\ icount' = icount + 1
    /\ inputs' = Append(inputs, icount + 1)
    /\ i_suspend' = IF has_suspend THEN i_suspend \cup {icount + 1}
                    ELSE i_suspend
    /\ trace' = <<>>
    /\ last' = [op |-> "input_new", i |-> icount + 1]
    /\ UNCHANGED <<created, name, state, cb, transport, corked, iput, volume,
                   muted, refresh, latency, namereg, core_sinks, monitor, thread_info,
                   ith, mailbox, hist>>

InputPut(i) ==
    /\ created
    /\ PA_SINK_LINKED(state)
    /\ i \in Range(inputs) \ iput
    /\ Commit(Finish(SendSync([Cur EXCEPT !.iput = @ \cup {i}],
                              Msg("ADD_INPUT", i), TRUE),
                     [op |-> "input_put", i |-> i, ret |-> 0]))
    /\ UNCHANGED <<transport, i_suspend, icount, refresh, hist>>

(* the owner of an input that is not put yet says what latency it wants of
   the sink (thread_info.requested_sink_latency) *)
InputSetLatency(i, l) ==
    /\ created
    /\ i \in Range(inputs) \ iput
    /\ ith[i].requested_sink_latency = -1
    /\ ith' = [ith EXCEPT ![i].requested_sink_latency = l]
    /\ trace' = <<>>
    /\ last' = [op |-> "input_set_latency", i |-> i]
    /\ UNCHANGED <<created, name, state, cb, transport, inputs, corked, iput,
                   i_suspend, icount, volume, muted, refresh, latency,
                   namereg, core_sinks, monitor, thread_info, mailbox, hist>>

InputUnlink(i) ==
    /\ created
    /\ i \in Range(inputs)
    /\ Commit(Finish(pa_sink_input_unlink(Cur, i),
                     [op |-> "input_unlink", i |-> i, ret |-> 0]))
    /\ UNCHANGED <<transport, i_suspend, icount, refresh, hist>>

InputCork(i) ==
    /\ created
    /\ i \in iput
    /\ corked' = IF i \in corked THEN corked \ {i} ELSE corked \cup {i}
    /\ trace' = <<>>
    /\ last' = [op |-> "input_cork", i |-> i]
    /\ UNCHANGED <<created, name, state, cb, transport, inputs, iput,
                   i_suspend, icount, volume, muted, refresh, latency, namereg,
                   core_sinks, monitor, thread_info, ith, mailbox, hist>>

(* an input is moved to another sink, with or without a ghost left behind
   that plays the bytes already rendered (pa_sink_input_move_to) *)
MoveInfos(i, g, Sizes) ==
    IF g = 0
    THEN {[sink_input |-> i, ghost |-> 0, buffer_bytes |-> 0, len |-> 0,
           peek_fail |-> 0, push_fail |-> 0]}
    ELSE [sink_input : {i}, ghost : {g}, buffer_bytes : Sizes,
          len : Sizes, peek_fail : {0} \cup Sizes, push_fail : {0} \cup Sizes]

MoveRoster(W, i, g) ==
    [W EXCEPT !.inputs = IF g = 0 THEN Remove(@, i) ELSE Append(Remove(@, i), g),
              !.corked = @ \ {i},
              !.iput = IF g = 0 THEN @ \ {i} ELSE (@ \ {i}) \cup {g}]

InputMove(with_ghost, limit, Sizes) ==
    /\ created
    /\ with_ghost => icount < limit
    /\ \E i \in iput :
         \E info \in MoveInfos(i, IF with_ghost THEN icount + 1 ELSE 0,
                                Sizes) :
            Commit(Finish(SendSync(MoveRoster(Cur, i, info.ghost),
                                   Msg("REMOVE_INPUT_AND_BUFFER", info), TRUE),
                          [op |-> "input_move", i |-> i, ghost |-> info.ghost,
                           buffer_bytes |-> info.buffer_bytes, ret |-> 0]))
    /\ icount' = IF with_ghost THEN icount + 1 ELSE icount
    /\ UNCHANGED <<transport, i_suspend, refresh, hist>>

(* an input is created and put in one go *)
InputNewPut(limit) ==
    /\ created
    /\ PA_SINK_LINKED(state)
    /\ icount < limit
    /\ Commit(Finish(SendSync([Cur EXCEPT !.inputs = Append(@, icount + 1),
                                         !.iput = @ \cup {icount + 1}],
                              Msg("ADD_INPUT", icount + 1), TRUE),
                     [op |-> "input_put", i |-> icount + 1, ret |-> 0]))
    /\ icount' = icount + 1
    /\ UNCHANGED <<transport, i_suspend, refresh, hist>>

(* --------------- control thread: volume and mute ---------------------- *)

(* The driver sets s->refresh_volume and s->refresh_mute before
   pa_sink_put. *)
DriverSetRefresh ==
    /\ created
    /\ state = "INIT"
    /\ refresh = [volume |-> FALSE, mute |-> FALSE]
    /\ refresh' = [volume |-> TRUE, mute |-> TRUE]
    /\ trace' = <<>>
    /\ last' = [op |-> "set_refresh"]
    /\ UNCHANGED <<created, name, state, cb, transport, inputs, corked, iput,
                   i_suspend, icount, volume, muted, latency, namereg,
                   core_sinks, monitor, thread_info, ith, mailbox, hist>>

(* if (s->set_volume && s->set_volume(s) < 0) s->set_volume = NULL, and the
   same for the three other hooks *)
CallHook_KeepFailed(W, c, hook_ok) ==
    IF W.cb[c] THEN Emit(W, Ev("callback", 0, c)) ELSE W

CallHook(W, c, hook_ok) ==
    IF W.cb[c] THEN Emit([W EXCEPT !.cb[c] = hook_ok], Ev("callback", 0, c))
    ELSE W

(* a set call that never posts *)
PostIfNoHook_Had(W, c, m) == W

PostIfNoHook(W, c, m) == IF ~W.cb[c] THEN PostAsync(W, m) ELSE W

pa_sink_set_volume(W, v, hook_ok) ==
    EmitIf(v # W.volume,
           PostIfNoHook(CallHook([Check(W, PA_SINK_LINKED(W.state))
                                     EXCEPT !.volume = v],
                                 "set_volume", hook_ok),
                        "set_volume", Msg("SET_VOLUME", v)),
           Ev("subscription", 0, "CHANGE"))

pa_sink_set_mute(W, m, hook_ok) ==
    EmitIf(m # W.muted,
           PostIfNoHook(CallHook([Check(W, PA_SINK_LINKED(W.state))
                                     EXCEPT !.muted = m],
                                 "set_mute", hook_ok),
                        "set_mute", Msg("SET_MUTE", m)),
           Ev("subscription", 0, "CHANGE"))

(* A get hook that succeeds has stored what the hardware says (hw) in
   s->volume or s->muted. *)
GetHookVolume(W, hook_ok, hw) ==
    IF W.cb.get_volume /\ hook_ok
    THEN [CallHook(W, "get_volume", hook_ok) EXCEPT !.volume = hw]
    ELSE CallHook(W, "get_volume", hook_ok)

GetHookMute(W, hook_ok, hw) ==
    IF W.cb.get_mute /\ hook_ok
    THEN [CallHook(W, "get_mute", hook_ok) EXCEPT !.muted = hw]
    ELSE CallHook(W, "get_mute", hook_ok)

(* the value is returned; CHANGE is posted if it is not the old one *)
GetVolumeReturn(W, old) ==
    EmitIf(W.volume # old, Ret(W, W.volume), Ev("subscription", 0, "CHANGE"))

GetMuteReturn(W, old) ==
    EmitIf(W.muted # old, Ret(W, IF W.muted THEN 1 ELSE 0),
           Ev("subscription", 0, "CHANGE"))

SendIfNoHook(W, c, flag, m) ==
    IF ~W.cb[c] /\ flag THEN SendSync(W, m, TRUE) ELSE W

pa_sink_get_volume(W, hook_ok, hw) ==
    GetVolumeReturn(
        SendIfNoHook(GetHookVolume(Check(W, PA_SINK_LINKED(W.state)),
                                   hook_ok, hw),
                     "get_volume", refresh.volume, Msg("GET_VOLUME", 0)),
        W.volume)

pa_sink_get_mute(W, hook_ok, hw) ==
    GetMuteReturn(
        SendIfNoHook(GetHookMute(Check(W, PA_SINK_LINKED(W.state)),
                                 hook_ok, hw),
                     "get_mute", refresh.mute, Msg("GET_MUTE", 0)),
        W.muted)

(* what set_volume, set_mute, get_volume and get_mute leave in last *)
VolumeOp(op, c, v, hook_ok) ==
    [op |-> op, v |-> v, hooked |-> cb[c], hook_ok |-> hook_ok, ret |-> 0]

(* a hook can fail only when there is one; what a get hook reads from the
   hardware matters only when there is one *)
HookCan(c) == IF cb[c] THEN BOOLEAN ELSE {TRUE}
HardwareVolumes == IF cb.get_volume THEN Vols ELSE {volume}
HardwareMutes == IF cb.get_mute THEN BOOLEAN ELSE {muted}

SetVolume(VolSet, limit) ==
    /\ created
    /\ Len(mailbox) < limit
    /\ \E v \in VolSet, hook_ok \in HookCan("set_volume") :
         /\ Commit(Finish(pa_sink_set_volume(Cur, v, hook_ok),
                          VolumeOp("set_volume", "set_volume", v, hook_ok)))
         /\ hist' = [hist EXCEPT !.vol = [set |-> ~cb.set_volume \/ ~hook_ok,
                                          v |-> v, read |-> FALSE]]
    /\ UNCHANGED <<transport, i_suspend, icount, refresh>>

SetMute(MuteSet, limit) ==
    /\ created
    /\ Len(mailbox) < limit
    /\ \E m \in MuteSet, hook_ok \in HookCan("set_mute") :
         /\ Commit(Finish(pa_sink_set_mute(Cur, m, hook_ok),
                          VolumeOp("set_mute", "set_mute", m, hook_ok)))
         /\ hist' = [hist EXCEPT !.mute = [set |-> ~cb.set_mute \/ ~hook_ok,
                                           v |-> m, read |-> FALSE]]
    /\ UNCHANGED <<transport, i_suspend, icount, refresh>>

GetVolume ==
    /\ created
    /\ \E hook_ok \in HookCan("get_volume"), hw \in HardwareVolumes :
         /\ Commit(Finish(pa_sink_get_volume(Cur, hook_ok, hw),
                          VolumeOp("get_volume", "get_volume", hw, hook_ok)))
         /\ hist' = IF cb.get_volume /\ hook_ok
                    THEN [hist EXCEPT !.vol.read = TRUE] ELSE hist
    /\ UNCHANGED <<transport, i_suspend, icount, refresh>>

GetMute ==
    /\ created
    /\ \E hook_ok \in HookCan("get_mute"), hw \in HardwareMutes :
         /\ Commit(Finish(pa_sink_get_mute(Cur, hook_ok, hw),
                          VolumeOp("get_mute", "get_mute", hw, hook_ok)))
         /\ hist' = IF cb.get_mute /\ hook_ok
                    THEN [hist EXCEPT !.mute.read = TRUE] ELSE hist
    /\ UNCHANGED <<transport, i_suspend, icount, refresh>>

(* pa_sink_detach / pa_sink_attach *)
pa_sink_detach(W) ==
    SendSync(Check(W, PA_SINK_LINKED(W.state)), Msg("DETACH", 0), TRUE)

pa_sink_attach(W) ==
    SendSync(Check(W, PA_SINK_LINKED(W.state)), Msg("ATTACH", 0), TRUE)

Detach ==
    /\ created
    /\ Commit(Finish(pa_sink_detach(Cur), [op |-> "detach", ret |-> 0]))
    /\ UNCHANGED <<transport, i_suspend, icount, refresh, hist>>

Attach ==
    /\ created
    /\ Commit(Finish(pa_sink_attach(Cur), [op |-> "attach", ret |-> 0]))
    /\ UNCHANGED <<transport, i_suspend, icount, refresh, hist>>

(* pa_sink_get_latency: the driver's hook (what it returns is the driver's
   business, hw here), or GET_LATENCY, which the handler of this file does
   not answer *)
LatencyResult(W) == IF W.ret < 0 THEN Ret(W, 0) ELSE Ret(W, W.loc.result)

pa_sink_get_latency(W, hw) ==
    IF ~PA_SINK_OPENED(W.state) THEN Ret(Check(W, PA_SINK_LINKED(W.state)), 0)
    ELSE IF W.cb.get_latency
    THEN Ret(Emit(Check(W, PA_SINK_LINKED(W.state)),
                  Ev("callback", 0, "get_latency")), hw)
    ELSE LatencyResult(SendSync(Check(W, PA_SINK_LINKED(W.state)),
                                Msg("GET_LATENCY", 0), TRUE))

(* pa_sink_get_requested_latency *)
pa_sink_get_requested_latency(W) ==
    IF ~PA_SINK_OPENED(W.state) THEN Ret(Check(W, PA_SINK_LINKED(W.state)), 0)
    ELSE LatencyResult(SendSync(Check(W, PA_SINK_LINKED(W.state)),
                                Msg("GET_REQUESTED_LATENCY", 0), TRUE))

GetLatency ==
    /\ created
    /\ \E hw \in {DEFAULT_MIN_LATENCY} :
         Commit(Finish(pa_sink_get_latency(Cur, hw),
                       [op |-> "get_latency", ret |-> 0]))
    /\ UNCHANGED <<transport, i_suspend, icount, refresh, hist>>

GetRequestedLatency ==
    /\ created
    /\ Commit(Finish(pa_sink_get_requested_latency(Cur),
                     [op |-> "get_requested_latency", ret |-> 0]))
    /\ UNCHANGED <<transport, i_suspend, icount, refresh, hist>>

(* --------------------- the render thread's steps ---------------------- *)

(* the render thread takes the next posted message off the queue *)
ProcessMsg ==
    /\ created
    /\ mailbox # <<>>
    /\ Commit(Finish(pa_sink_process_msg([Cur EXCEPT !.mailbox = Tail(@)],
                                         Head(mailbox)),
                     [op |-> "process_msg", code |-> Head(mailbox).code,
                      ret |-> 0]))
    /\ UNCHANGED <<transport, i_suspend, icount, refresh, hist>>

(* what a pass leaves in last: the length asked for and whether the render
   side was RUNNING (ret: the length of the result) *)
PassOp(op, length) ==
    [op |-> op, length |-> length,
     running |-> thread_info.state = "RUNNING", ret |-> 0]

Render(Lens, Plans) ==
    /\ created
    /\ \E length \in Lens, plan \in Plans :
         Commit(Finish(pa_sink_render(Cur, length, plan),
                       PassOp("render", length)))
    /\ UNCHANGED <<transport, i_suspend, icount, refresh, hist>>

RenderInto(Lens, Plans) ==
    /\ created
    /\ \E length \in Lens, plan \in Plans :
         Commit(Finish(pa_sink_render_into(Cur, length, plan),
                       PassOp("render_into", length)))
    /\ UNCHANGED <<transport, i_suspend, icount, refresh, hist>>

(* The monitor source is suspended or resumed (pa_source_suspend, by its
   own users): it is opened or not. *)
MonitorSuspend(suspend) ==
    /\ created
    /\ monitor = (IF suspend THEN "linked" ELSE "suspended")
    /\ monitor' = (IF suspend THEN "suspended" ELSE "linked")
    /\ trace' = <<>>
    /\ last' = [op |-> "monitor_suspend"]
    /\ UNCHANGED <<created, name, state, cb, transport, inputs, corked, iput,
                   i_suspend, icount, volume, muted, refresh, latency, namereg,
                   core_sinks, thread_info, ith, mailbox, hist>>

RenderIntoFull(Lens, Plans) ==
    /\ created
    /\ \E length \in Lens, plan \in Plans :
         Commit(Finish(pa_sink_render_into_full(Cur, length, plan),
                       PassOp("render_into_full", length)))
    /\ UNCHANGED <<transport, i_suspend, icount, refresh, hist>>

RenderFull(Lens, Plans) ==
    /\ created
    /\ \E length \in Lens, plan \in Plans :
         Commit(Finish(pa_sink_render_full(Cur, length, plan),
                       PassOp("render_full", length)))
    /\ UNCHANGED <<transport, i_suspend, icount, refresh, hist>>

Skip(Lens, Plans) ==
    /\ created
    /\ \E length \in Lens, plan \in Plans, used \in BOOLEAN :
         Commit(Finish(pa_sink_skip(Cur, length, used, plan),
                       [op |-> "skip", length |-> length, used |-> used,
                        ret |-> 0]))
    /\ UNCHANGED <<transport, i_suspend, icount, refresh, hist>>

ProcessRewind(Sizes) ==
    /\ created
    /\ \E nbytes \in Sizes :
         Commit(Finish(pa_sink_process_rewind(Cur, nbytes),
                       [op |-> "process_rewind", n |-> nbytes, ret |-> 0]))
    /\ UNCHANGED <<transport, i_suspend, icount, refresh, hist>>

(* what pa_sink_request_rewind leaves in last: its argument, the pending
   rewind before the call and the limit *)
RequestRewind(Sizes) ==
    /\ created
    /\ \E nbytes \in Sizes :
         Commit(Finish(pa_sink_request_rewind(Cur, nbytes),
                       [op |-> "request_rewind", n |-> nbytes,
                        prior |-> thread_info.rewind_nbytes,
                        max_rewind |-> thread_info.max_rewind, ret |-> 0]))
    /\ UNCHANGED <<transport, i_suspend, icount, refresh, hist>>

SetMaxRewind(Sizes) ==
    /\ created
    /\ \E max_rewind \in Sizes :
         Commit(Finish(pa_sink_set_max_rewind(Cur, max_rewind),
                       [op |-> "set_max_rewind", n |-> max_rewind, ret |-> 0]))
    /\ UNCHANGED <<transport, i_suspend, icount, refresh, hist>>

GetRequestedLatencyWithinThread ==
    /\ created
    /\ Commit(Finish(pa_sink_get_requested_latency_within_thread(Cur),
                     [op |-> "get_requested_latency_within_thread",
                      ret |-> 0]))
    /\ UNCHANGED <<transport, i_suspend, icount, refresh, hist>>

(* ------------------ the lifecycle of a sink --------------------------- *)

Next ==
    \/ New({1}, {"none"}, {MaxVol}, {FALSE})
    \/ pa_sink_set_asyncmsgq
    \/ pa_sink_set_rtpoll
    \/ DriverSetCallback("set_state")
    \/ DriverOverrideProcessMsg
    \/ Put
    \/ UpdateStatus
    \/ \E b \in BOOLEAN : Suspend(b)
    \/ Unlink
    \/ \E h \in BOOLEAN : InputNew(h)
    \/ \E i \in Inputs : InputPut(i)
    \/ \E i \in Inputs : InputUnlink(i)
    \/ \E i \in Inputs : InputCork(i)

Spec == Init /\ [][Next]_vars

(* --------------- construction, with its failure paths ----------------- *)

NextNew ==
    \/ New(Names, Faults, Vols, BOOLEAN)
    \/ \E n \in Names : NameregOther(n)
    \/ pa_sink_set_asyncmsgq
    \/ pa_sink_set_rtpoll
    \/ Put
    \/ Unlink

SpecNew == Init /\ [][NextNew]_vars

(* ------------------ volume and mute, with the mailbox ----------------- *)

VolumeHooks == {"set_volume", "set_mute", "get_volume", "get_mute"}

NextVolume ==
    \/ New({1}, {"none"}, {0}, {FALSE})
    \/ pa_sink_set_asyncmsgq
    \/ pa_sink_set_rtpoll
    \/ \E c \in VolumeHooks : DriverSetCallback(c)
    \/ DriverSetRefresh
    \/ Put
    \/ SetVolume(Vols, MaxQueue)
    \/ SetMute(BOOLEAN, MaxQueue)
    \/ GetVolume
    \/ GetMute
    \/ ProcessMsg
    \/ Unlink

SpecVolume == Init /\ [][NextVolume]_vars

(* ------------------------ the rewind protocol ------------------------- *)

(* every input answers every peek the same way *)
UniformPlans == {[i \in AllInputs |-> o] : o \in PeekOutcomes}
(* the same, with chunks of one frame *)
FramePlans ==
    {[i \in AllInputs |-> o] : o \in {p \in PeekOutcomes : p.len <= FrameSize}}

NextRewind ==
    \/ New({1}, {"none"}, {0}, {FALSE})
    \/ pa_sink_set_asyncmsgq
    \/ pa_sink_set_rtpoll
    \/ DriverSetCallback("request_rewind")
    \/ Put
    \/ InputNewPut(MaxInputs)
    \/ \E i \in Inputs : InputUnlink(i)
    \/ RequestRewind(Bytes)
    \/ SetMaxRewind(Bytes)
    \/ ProcessRewind(Bytes)
    \/ Render({FrameSize}, UniformPlans)
    \/ Skip({FrameSize}, UniformPlans)

SpecRewind == Init /\ [][NextRewind]_vars

(* ---------- the render thread: messages, passes and queries ----------- *)

NextThread ==
    \/ New({1}, {"none"}, {0}, {FALSE})
    \/ pa_sink_set_asyncmsgq
    \/ pa_sink_set_rtpoll
    \/ Put
    \/ InputNewPut(MaxInputs)
    \/ \E i \in Inputs : InputUnlink(i)
    \/ \E g \in BOOLEAN : InputMove(g, MaxInputs, {1})
    \/ \E b \in BOOLEAN : Suspend(b)
    \/ SetVolume({MaxVol}, 1)
    \/ SetMute({TRUE}, 1)
    \/ ProcessMsg
    \/ Detach
    \/ Attach
    \/ GetLatency
    \/ GetRequestedLatency
    \/ GetRequestedLatencyWithinThread
    \/ Render({FrameSize}, FramePlans)
    \/ RenderInto({FrameSize}, FramePlans)
    \/ Skip({FrameSize}, FramePlans)
    \/ ProcessRewind({MaxBytes})
    \/ RequestRewind({0})
    \/ SetMaxRewind({0, MaxBytes})
    \/ Unlink

SpecThread == Init /\ [][NextThread]_vars

(* ------------- the mixer with more inputs than it can mix ------------- *)

(* The input the map iterates first fails or returns audio, the second
   returns one frame of silence or audio, the others return audio. *)
ProbeAt(k) ==
    IF k \in DOMAIN thread_info.inputs THEN thread_info.inputs[k] ELSE 0

ProbeOutcome(kind, len) ==
    IF kind = "fail" THEN [kind |-> "fail", len |-> 0]
    ELSE IF kind = "silence" THEN [kind |-> "silence", len |-> FrameSize]
    ELSE [kind |-> "audio", len |-> len]

ProbePlan(k1, k2, len) ==
    [i \in AllInputs |->
        IF i = ProbeAt(1) THEN ProbeOutcome(k1, len)
        ELSE IF i = ProbeAt(2) THEN ProbeOutcome(k2, len)
        ELSE ProbeOutcome("audio", len)]

ProbePlans ==
    {ProbePlan(k1, k2, len) :
        k1 \in {"fail", "audio"}, k2 \in {"silence", "audio"},
        len \in ChunkLengths}

NextMix ==
    \/ New({1}, {"none"}, {0}, {FALSE})
    \/ pa_sink_set_asyncmsgq
    \/ pa_sink_set_rtpoll
    \/ Put
    \/ InputNewPut(MAX_MIX_CHANNELS + MaxOver)
    \/ UpdateStatus
    \/ Render({0, FrameSize}, ProbePlans)
    \/ RenderInto({FrameSize}, ProbePlans)

SpecMix == Init /\ [][NextMix]_vars

(* ------------------- the length of a render's result ------------------ *)

(* every frame-aligned length up to MaxFrames frames, 0 among them; the two
   first inputs answer independently, with chunks of one frame or of
   MaxFrames frames (more than a block of the pool) *)
PassLengths == {f * FrameSize : f \in 0..MaxFrames}

LengthOutcomes ==
    {[kind |-> "fail", len |-> 0]}
        \cup [kind : {"silence", "audio"},
              len : {FrameSize, MaxFrames * FrameSize}]

LengthPlans ==
    {[i \in AllInputs |-> IF i = 1 THEN o1 ELSE o2] :
        o1 \in LengthOutcomes, o2 \in LengthOutcomes}

NextLength ==
    \/ New({1}, {"none"}, {0}, {FALSE})
    \/ pa_sink_set_asyncmsgq
    \/ pa_sink_set_rtpoll
    \/ Put
    \/ InputNewPut(MaxInputs)
    \/ \E i \in Inputs : InputUnlink(i)
    \/ UpdateStatus
    \/ Render(PassLengths, LengthPlans)

SpecLength == Init /\ [][NextLength]_vars

(* ------------- inputs_drop, for any roster and info array ------------- *)

(* the sequences without repetition over S *)
Orders(S) ==
    {q \in UNION {[1..n -> S] : n \in 0..Cardinality(S)} :
        \A a, b \in DOMAIN q : a # b => q[a] # q[b]}

(* inputs_drop is given an info array that fill_mix_info filled (distinct
   inputs, each with its chunk) while the map holds roster: any inputs in
   any order, those of the array among them or not.  The passes call it in
   RUNNING only. *)
InputsDrop ==
    \E roster \in Orders(1..MaxDrop), filled \in Orders(1..MaxDrop) :
        /\ thread_info.state = "RUNNING"
        /\ trace' = inputs_drop(
                        [Cur EXCEPT !.thread_info.inputs = roster,
                                    !.loc.info =
                                        [k \in DOMAIN filled |->
                                            [userdata |-> filled[k],
                                             len |-> FrameSize,
                                             memblock |-> filled[k]]]],
                        FrameSize).trace
        /\ last' = [op |-> "inputs_drop", roster |-> roster,
                    filled |-> filled]
        /\ UNCHANGED <<created, name, state, cb, transport, inputs, corked,
                       iput, i_suspend, icount, volume, muted, refresh,
                       latency, namereg, core_sinks, monitor, thread_info,
                       ith, mailbox, hist>>

NextDrop ==
    \/ New({1}, {"none"}, {0}, {FALSE})
    \/ pa_sink_set_asyncmsgq
    \/ pa_sink_set_rtpoll
    \/ Put
    \/ InputNewPut(MaxInputs)
    \/ UpdateStatus
    \/ Render({FrameSize}, LengthPlans)
    \/ InputsDrop

SpecDrop == Init /\ [][NextDrop]_vars

(* ------------------- the sinks index, suspend_all --------------------- *)

NextIndex ==
    \/ New({1}, {"none"}, {MaxVol}, {FALSE})
    \/ pa_sink_set_asyncmsgq
    \/ pa_sink_set_rtpoll
    \/ DriverSetCallback("set_state")
    \/ Put
    \/ Unlink
    \/ \E b \in BOOLEAN : SuspendAll(b)
    \/ \E h \in BOOLEAN : InputNew(h)
    \/ \E i \in Inputs : InputPut(i)
    \/ \E i \in Inputs : InputCork(i)

SpecIndex == Init /\ [][NextIndex]_vars

(* ----------------- passes in a loop: full renders, skip --------------- *)

(* the first input fails or gives audio of one frame, of two, or of
   MaxFrames frames; the others give silence or audio; the same answers in
   every pass of a loop *)
FirstOutcomes ==
    {[kind |-> "fail", len |-> 0]}
        \cup [kind : {"audio"},
              len : {FrameSize, 2 * FrameSize, MaxFrames * FrameSize}]

OtherOutcomes ==
    {[kind |-> "silence", len |-> 2 * FrameSize],
     [kind |-> "audio", len |-> FrameSize],
     [kind |-> "audio", len |-> MaxFrames * FrameSize]}

FullPlans ==
    {[i \in AllInputs |-> IF i = 1 THEN o1 ELSE o2] :
        o1 \in FirstOutcomes, o2 \in OtherOutcomes}

NextFull ==
    \/ New({1}, {"none"}, {0}, {FALSE})
    \/ pa_sink_set_asyncmsgq
    \/ pa_sink_set_rtpoll
    \/ Put
    \/ InputNewPut(MaxInputs)
    \/ UpdateStatus
    \/ \E b \in BOOLEAN : MonitorSuspend(b)
    \/ Render(PassLengths, FullPlans)
    \/ RenderInto(PassLengths \ {0}, FullPlans)
    \/ RenderIntoFull(PassLengths \ {0}, FullPlans)
    \/ RenderFull(PassLengths \ {0}, FullPlans)
    \/ Skip(PassLengths \ {0}, FullPlans)

SpecFull == Init /\ [][NextFull]_vars

(* ---------------------- inputs that move away ------------------------- *)

MoveSizes == 1..(MaxBytes + 1)

NextMove ==
    \/ New({1}, {"none"}, {0}, {FALSE})
    \/ pa_sink_set_asyncmsgq
    \/ pa_sink_set_rtpoll
    \/ Put
    \/ InputNewPut(MaxInputs)
    \/ \E i \in Inputs : InputUnlink(i)
    \/ \E g \in BOOLEAN : InputMove(g, MaxInputs + 1, MoveSizes)
    \/ SetMaxRewind(Bytes)
    \/ Render({FrameSize}, FramePlans)

SpecMove == Init /\ [][NextMove]_vars

(* ------------------- the requested latency and its cache -------------- *)

(* the bounds the driver gives the sink: both, or one of them *)
LatencyBounds ==
    {<<MaxLat - 1, MaxLat>>, <<0, MaxLat>>, <<MaxLat - 1, 0>>}
WantedLatencies == {1, MaxLat + 1}
QuerySets ==
    {{"update_requested_latency_cb", "request_rewind_cb"},
     {"attach", "detach"}, HookNames}

NextLatency ==
    \/ New({1}, {"none"}, {0}, {FALSE})
    \/ pa_sink_set_asyncmsgq
    \/ pa_sink_set_rtpoll
    \/ DriverSetCallback("update_requested_latency")
    \/ DriverSetCallback("request_rewind")
    \/ DriverSetLatency(LatencyBounds, QuerySets)
    \/ Put
    \/ InputNew(FALSE)
    \/ \E i \in Inputs, l \in WantedLatencies : InputSetLatency(i, l)
    \/ \E i \in Inputs : InputPut(i)
    \/ \E i \in Inputs : InputUnlink(i)
    \/ InputMove(TRUE, MaxInputs + 1, {1})
    \/ SetMaxRewind({MaxBytes})
    \/ GetRequestedLatencyWithinThread

SpecLatency == Init /\ [][NextLatency]_vars

(* ====================== the claims, and their checks ================== *)

SetStateOps == {"put", "update_status", "suspend", "unlink"}
HasEvent(tr, e, a) == \E k \in DOMAIN tr : tr[k].ev = e /\ tr[k].arg = a
(* the positions of the events e of a trace *)
Pos(tr, e) == {k \in DOMAIN tr : tr[k].ev = e}
PosArg(tr, e, a) == {k \in DOMAIN tr : tr[k].ev = e /\ tr[k].arg = a}

(* C1: the control-side state is INIT until pa_sink_put (or pa_sink_unlink)
   is called, is IDLE, RUNNING or SUSPENDED after pa_sink_put and before
   pa_sink_unlink, never leaves UNLINKED once it is there, and pa_sink_put
   only ever runs on a sink in INIT. *)
C1_StateLifecycle ==
    /\ [](created =>
            /\ (~hist.put /\ hist.unlinks = 0) => state = "INIT"
            /\ (hist.put /\ hist.unlinks = 0) => PA_SINK_LINKED(state))
    /\ [][/\ state = "UNLINKED" => state' = "UNLINKED"
          /\ last'.op = "put" => state = "INIT"]_vars

C1_Witness ==
    /\ hist.put
    /\ hist.unlinks = 2
    /\ last.op = "unlink"
    /\ last.old_state = "UNLINKED"
    /\ state = "UNLINKED"

(* C2: when pa_sink_unlink returns the state is UNLINKED, whatever the
   driver's set_state hook and the SET_STATE message answered; REMOVE and
   SINK_UNLINK_POST are never emitted for a sink that is still linked. *)
C2_UnlinkEndsUnlinked ==
    /\ last.op = "unlink" => state = "UNLINKED"
    /\ (HasEvent(trace, "subscription", "REMOVE")
          \/ HasEvent(trace, "hook", "SINK_UNLINK_POST"))
         => state = "UNLINKED"

(* C3: a failing set_state hook aborts the transition with an error and
   without any update: both states keep their value, no SET_STATE is sent,
   no suspend callback runs, SINK_STATE_CHANGED is not fired. *)
C3_HookFailureAborts ==
    (last.op \in SetStateOps /\ last.hook_failed) =>
        /\ last.ret = -1
        /\ state = last.old_state
        /\ thread_info.state = last.old_ti_state
        /\ ~HasEvent(trace, "send", "SET_STATE")
        /\ ~HasEvent(trace, "msg", "SET_STATE")
        /\ Pos(trace, "suspend") = {}
        /\ ~HasEvent(trace, "hook", "SINK_STATE_CHANGED")

C3_Witness ==
    /\ last.op = "suspend"
    /\ last.hook_failed
    /\ last.old_state = "RUNNING"
    /\ last.target = "SUSPENDED"
    /\ Range(inputs) \cap i_suspend # {}

(* C4: a successful transition across the SUSPENDED/OPENED boundary calls
   the suspend callback of every roster input that has one exactly once,
   with TRUE iff the new state is SUSPENDED, after the render side handled
   SET_STATE and the control side stored the state, and before
   SINK_STATE_CHANGED; no other operation calls a suspend callback. *)
Opened == {"IDLE", "RUNNING"}
Crossing ==
    /\ last.op \in SetStateOps
    /\ last.ret = 0
    /\ \/ last.old_state \in Opened /\ last.target = "SUSPENDED"
       \/ last.old_state = "SUSPENDED" /\ last.target \in Opened

C4_SuspendCallbacks ==
    IF Crossing
    THEN /\ state = last.target
         /\ thread_info.state = last.target
         /\ \A i \in Inputs :
               Cardinality({k \in Pos(trace, "suspend") : trace[k].i = i})
                  = IF i \in Range(inputs) \cap i_suspend THEN 1 ELSE 0
         /\ \A k \in Pos(trace, "suspend") :
               /\ trace[k].arg = BoolStr(last.target = "SUSPENDED")
               /\ \E a \in PosArg(trace, "msg", "SET_STATE") : a < k
               /\ \E a \in Pos(trace, "store_state") : a < k
               /\ \E a \in PosArg(trace, "hook", "SINK_STATE_CHANGED") : k < a
    ELSE Pos(trace, "suspend") = {}

C4_Witness ==
    /\ Crossing
    /\ last.op = "suspend"
    /\ last.old_state = "SUSPENDED"
    /\ last.target = "RUNNING"
    /\ Len(inputs) = 2
    /\ Cardinality(Pos(trace, "suspend")) = 2

(* C9: a second pa_sink_unlink fires no hook, posts no event, unregisters
   nothing, kills no input, sends no message and changes no field. *)
C9_UnlinkIdempotent ==
    [][(hist.unlinks >= 1 /\ hist'.unlinks > hist.unlinks) =>
          /\ trace' = <<>>
          /\ state' = state
          /\ cb' = cb
          /\ namereg' = namereg
          /\ core_sinks' = core_sinks
          /\ inputs' = inputs
          /\ monitor' = monitor
          /\ thread_info' = thread_info]_vars

(* C8: when pa_sink_new fails (returns NULL) no partial registration is
   left: no name of the registry belongs to the sink and the sink is not in
   core->sinks. *)
C8_NewFailureUnwinds ==
    (last.op = "new" /\ last.ret = -1) =>
        /\ \A n \in Names : namereg[n] # "sink"
        /\ ~core_sinks

(* C10, as stated: after request_rewind(n) the pending rewind is
   min(max(n, prior), max_rewind), n = 0 asking for max_rewind. *)
RewindAsked(n, max_rewind) == IF n = 0 THEN max_rewind ELSE n

C10_RewindClampAsStated ==
    last.op = "request_rewind" =>
        thread_info.rewind_nbytes =
            Min(Max(RewindAsked(last.n, last.max_rewind), last.prior),
                last.max_rewind)

(* C10: after request_rewind(n) the pending rewind is the larger of prior
   and min(n, max_rewind), n = 0 asking for max_rewind; that is
   min(max(n, prior), max_rewind) whenever prior <= max_rewind, and prior
   itself when prior > max_rewind. *)
C10_RewindClamp ==
    last.op = "request_rewind" =>
        /\ thread_info.rewind_nbytes =
              Max(last.prior,
                  Min(RewindAsked(last.n, last.max_rewind), last.max_rewind))
        /\ thread_info.max_rewind = last.max_rewind
        /\ last.prior > last.max_rewind =>
              thread_info.rewind_nbytes = last.prior

C10_Witness ==
    /\ last.op = "request_rewind"
    /\ last.n = 1
    /\ last.prior = 0
    /\ last.max_rewind = 2
    /\ thread_info.rewind_nbytes = 1
    /\ HasEvent(trace, "request_rewind_cb", "")

PassOps == {"render", "render_into"}
Contributors(tr) == {tr[k].i : k \in PosArg(tr, "peek", "audio")}
Peeked(tr) == {tr[k].i : k \in Pos(tr, "peek")}
Drops(tr, i) == {k \in Pos(tr, "drop") : tr[k].i = i}
DroppedOnceBy(tr, i, n) ==
    /\ Cardinality(Drops(tr, i)) = 1
    /\ \A k \in Drops(tr, i) : tr[k].n = n

(* C5, as stated: after a render pass in RUNNING the inputs that contributed
   to the mix had drop called exactly once with the result length, and the
   inputs that did not contribute were not advanced. *)
C5_DropContributorsAsStated ==
    (last.op \in PassOps /\ last.running) =>
        \A i \in Range(thread_info.inputs) :
            IF i \in Contributors(trace)
            THEN DroppedOnceBy(trace, i, last.ret)
            ELSE Drops(trace, i) = {}

(* C5: after a render or render_into pass in RUNNING every input of the render
   map, contributor or not, had drop called exactly once with the result
   length, after the peeks and at most MAX_MIX_CHANNELS inputs contributed;
   a pass outside RUNNING peeks and drops nothing. *)
C5_DropEveryInput ==
    last.op \in PassOps =>
        IF last.running
        THEN /\ Cardinality(Contributors(trace)) <= MAX_MIX_CHANNELS
             /\ \A i \in Range(thread_info.inputs) :
                    DroppedOnceBy(trace, i, last.ret)
             /\ \A k \in Pos(trace, "drop") :
                    /\ trace[k].i \in Range(thread_info.inputs)
                    /\ \A j \in Pos(trace, "peek") : j < k
        ELSE Pos(trace, "drop") \cup Pos(trace, "peek") = {}

C5_Witness ==
    /\ last.op = "render"
    /\ last.running
    /\ Len(thread_info.inputs) = MAX_MIX_CHANNELS + MaxOver
    /\ Cardinality(Contributors(trace)) = MAX_MIX_CHANNELS
    /\ PosArg(trace, "peek", "fail") # {}
    /\ PosArg(trace, "peek", "silence") # {}
    /\ Range(thread_info.inputs) \ Peeked(trace) # {}
    /\ Cardinality(Pos(trace, "drop")) = MAX_MIX_CHANNELS + MaxOver
    /\ last.ret = FrameSize

MapStep(S, e) ==
    IF e.ev # "msg" THEN S
    ELSE IF e.arg = "ADD_INPUT" THEN S \cup {e.i}
    ELSE IF e.arg = "REMOVE_INPUT" THEN S \ {e.i}
    ELSE IF e.arg = "REMOVE_INPUT_AND_BUFFER"
    THEN (S \ {e.i}) \cup (IF e.n = 0 THEN {} ELSE {e.n})
    ELSE S

RECURSIVE MapAfter(_, _)
MapAfter(S, tr) ==
    IF tr = <<>> THEN S ELSE MapAfter(MapStep(S, Head(tr)), Tail(tr))

(* C6: the render-thread input map changes only through the handling of
   ADD_INPUT (adds the input), REMOVE_INPUT (removes it) and
   REMOVE_INPUT_AND_BUFFER (removes it, adds the ghost if there is one);
   no other operation changes its membership. *)
C6_MapMembership ==
    [][Range(thread_info.inputs') =
          MapAfter(Range(thread_info.inputs), trace')]_vars

C6_Witness ==
    /\ last.op = "input_move"
    /\ last.ghost # 0
    /\ HasEvent(trace, "msg", "REMOVE_INPUT_AND_BUFFER")
    /\ last.ghost \in Range(thread_info.inputs)
    /\ last.i \notin Range(thread_info.inputs)

Pending(code) == {k \in DOMAIN mailbox : mailbox[k].code = code}
Posted(op) ==
    last.op = op /\ (~last.hooked \/ ~last.hook_ok)
PostedLast(code, v) ==
    /\ Cardinality(PosArg(trace, "post", code)) = 1
    /\ mailbox # <<>>
    /\ mailbox[Len(mailbox)].code = code
    /\ mailbox[Len(mailbox)].arg = v
Follows(h, code, control, soft) ==
    h.set =>
        /\ ~h.read => control = h.v
        /\ Pending(code) = {} => soft = h.v
        /\ \A k \in Pending(code) :
              (\A j \in Pending(code) : j <= k) => mailbox[k].arg = h.v

(* C7: a volume or mute set that the hardware hook did not handle (no
   hook, or the hook failed) posts the corresponding message exactly once,
   behind the messages already posted; once no such message is pending the
   render thread's soft_volume / soft_muted equals the value of the last
   such set, which is the control-side volume / muted unless a get hook
   has replaced the control-side value since that call. *)
C7_SoftFollowsControl ==
    /\ Posted("set_volume") =>
          PostedLast("SET_VOLUME", last.v) /\ volume = last.v
    /\ Posted("set_mute") =>
          PostedLast("SET_MUTE", last.v) /\ muted = last.v
    /\ Follows(hist.vol, "SET_VOLUME", volume, thread_info.soft_volume)
    /\ Follows(hist.mute, "SET_MUTE", muted, thread_info.soft_muted)

C7_Witness ==
    /\ last.op = "process_msg"
    /\ last.code = "SET_VOLUME"
    /\ hist.vol.set
    /\ hist.vol.v = MaxVol
    /\ Pending("SET_VOLUME") = {}
    /\ thread_info.soft_volume = MaxVol
    /\ volume = MaxVol
    /\ hist.mute.set
    /\ hist.mute.v = TRUE
    /\ thread_info.soft_muted = TRUE

Wanted ==
    {ith[i].requested_sink_latency : i \in Range(thread_info.inputs)} \ {-1}
Least(S) == CHOOSE x \in S : \A y \in S : x <= y
Clamped(r) ==
    IF latency.max > 0 /\ r > latency.max THEN latency.max
    ELSE IF latency.min > 0 /\ r < latency.min THEN latency.min
    ELSE r
FreshLatency == IF Wanted = {} THEN -1 ELSE Clamped(Least(Wanted))

(* C11: get_requested_latency_within_thread returns the least
   requested_sink_latency of the inputs of the render map that gave one,
   clamped to the bounds of the sink that are nonzero, hence a value in
   [min_latency, max_latency] when both are nonzero; it returns the unset
   value (-1), unclamped, when no input gave one. *)
C11_LatencyClamp ==
    last.op = "get_requested_latency_within_thread" =>
        /\ last.ret = FreshLatency
        /\ Wanted = {} => last.ret = -1
        /\ (Wanted # {} /\ latency.min > 0 /\ latency.max > 0) =>
              (latency.min <= last.ret /\ last.ret <= latency.max)

C11_Witness ==
    /\ last.op = "get_requested_latency_within_thread"
    /\ Wanted = {1, MaxLat + 1}
    /\ latency.min = MaxLat - 1
    /\ latency.max = MaxLat
    /\ last.ret = latency.min
    /\ Len(thread_info.inputs) = 2

MapCodes == {"ADD_INPUT", "REMOVE_INPUT", "REMOVE_INPUT_AND_BUFFER"}
MapOps == {"input_put", "input_unlink", "input_move"}
HandledMapMsg ==
    last.op \in MapOps /\ \E k \in Pos(trace, "msg") : trace[k].arg \in MapCodes
DriverQueries(tr) ==
    {k \in Pos(tr, "query") :
        tr[k].arg \in {"update_requested_latency_cb", "request_rewind_cb"}}

(* C12, as stated: after the handling of ADD_INPUT, REMOVE_INPUT or
   REMOVE_INPUT_AND_BUFFER the cache of the requested latency is invalid,
   whatever hook or callback read the latency during the handler. *)
C12_CacheInvalidAsStated ==
    HandledMapMsg => ~thread_info.requested_latency_valid

(* C12: whenever the cache of the requested latency is valid, the cached
   value is the value a fresh computation over the render map gives; after
   the handling of ADD_INPUT, REMOVE_INPUT or REMOVE_INPUT_AND_BUFFER the
   cache is invalid unless a callback of the driver (update_requested_latency
   or request_rewind) read the latency after the map had changed, and what
   a hook of an input read before is discarded. *)
C12_CacheCoherent ==
    /\ thread_info.requested_latency_valid =>
          thread_info.requested_latency = FreshLatency
    /\ (HandledMapMsg /\ thread_info.requested_latency_valid) =>
          \E k \in DriverQueries(trace) :
              \A j \in Pos(trace, "attach") \cup Pos(trace, "detach") : j < k

C12_Witness ==
    /\ HandledMapMsg
    /\ last.op = "input_put"
    /\ thread_info.requested_latency_valid
    /\ Wanted # {}
    /\ thread_info.requested_latency = latency.max
    /\ PosArg(trace, "query", "attach") # {}
    /\ DriverQueries(trace) # {}

RECURSIVE DroppedBytes(_, _)
DroppedBytes(tr, i) ==
    IF tr = <<>> THEN 0
    ELSE (IF Head(tr).ev = "drop" /\ Head(tr).i = i THEN Head(tr).n ELSE 0)
             + DroppedBytes(Tail(tr), i)
EventsOf(tr, e, i) == {k \in Pos(tr, e) : tr[k].i = i}

(* C13: after REMOVE_INPUT_AND_BUFFER for input X with a budget
   buffer_bytes > 0 and a ghost G, X is not in the render map and not
   attached, G is in the render map and attached, its attach hook was called
   once, the buffer was installed on G, and the handler dropped at most
   buffer_bytes bytes from X. *)
C13_MoveWithGhost ==
    (last.op = "input_move" /\ last.ghost # 0) =>
        /\ last.i \notin Range(thread_info.inputs)
        /\ ~ith[last.i].attached
        /\ last.ghost \in Range(thread_info.inputs)
        /\ ith[last.ghost].attached
        /\ Cardinality(EventsOf(trace, "attach", last.ghost)) = 1
        /\ Cardinality(EventsOf(trace, "set_queue", last.ghost)) = 1
        /\ \A k \in EventsOf(trace, "set_queue", last.ghost) :
              \A j \in EventsOf(trace, "drop", last.i) : j < k
        /\ DroppedBytes(trace, last.i) <= last.buffer_bytes

C13_Witness ==
    /\ last.op = "input_move"
    /\ last.ghost # 0
    /\ last.buffer_bytes = MaxBytes + 1
    /\ Cardinality(EventsOf(trace, "drop", last.i)) = 2
    /\ DroppedBytes(trace, last.i) = last.buffer_bytes
    /\ PosArg(trace, "push", "fail") # {}
    /\ last.ghost \in Range(thread_info.inputs)

ThreadOps ==
    {"process_msg", "render", "render_into", "skip", "process_rewind",
     "request_rewind", "set_max_rewind", "get_requested_latency_within_thread"}
ControlFields ==
    <<created, name, state, cb, inputs, corked, iput, volume, muted, latency,
      namereg, core_sinks>>

(* C14: once the sink is put, what the render thread runs (render passes,
   rewinds, the handling of a message) writes no field outside thread_info,
   and the control thread's own code writes no field of thread_info: the
   fields outside thread_info stay as they are in every step of the render
   thread, volume and muted change only where the control thread stores
   them (new, set_volume, set_mute, a get hook of the driver), and
   thread_info changes in a step of the control thread only through a
   message the render thread handled. *)
C14_ThreadOwnership ==
    [][hist.put =>
         /\ last'.op \in ThreadOps => UNCHANGED ControlFields
         /\ (volume' # volume \/ muted' # muted) =>
               \/ last'.op \in {"set_volume", "set_mute"}
               \/ HasEvent(trace', "callback", "get_volume")
               \/ HasEvent(trace', "callback", "get_mute")
         /\ (last'.op \notin ThreadOps /\ thread_info' # thread_info) =>
               Pos(trace', "msg") # {}]_vars

(* C15: when pa_sink_unlink takes a linked sink to UNLINKED, every input of
   the roster was killed and its REMOVE_INPUT handled before the SET_STATE
   to UNLINKED, so the roster and the render map are empty and no message is
   pending when the state is UNLINKED; once the render side is UNLINKED no
   message is sent, posted or handled any more. *)
C15_KillBeforeUnlinked ==
    [][/\ (last'.op = "unlink" /\ PA_SINK_LINKED(state)
                              /\ state' = "UNLINKED") =>
            /\ inputs' = <<>>
            /\ iput' = {}
            /\ thread_info'.inputs = <<>>
            /\ mailbox' = <<>>
            /\ \A i \in Range(inputs) : EventsOf(trace', "kill", i) # {}
            /\ \A k \in PosArg(trace', "msg", "SET_STATE") :
                  \A j \in Pos(trace', "kill")
                            \cup PosArg(trace', "msg", "REMOVE_INPUT") : j < k
       /\ thread_info.state = "UNLINKED" =>
            /\ Pos(trace', "msg") \cup Pos(trace', "send")
                    \cup Pos(trace', "post") = {}
            /\ mailbox' = <<>>]_vars

C15_Witness ==
    /\ last.op = "unlink"
    /\ state = "UNLINKED"
    /\ thread_info.state = "UNLINKED"
    /\ Cardinality(Pos(trace, "kill")) = MaxInputs
    /\ Cardinality(PosArg(trace, "msg", "REMOVE_INPUT")) = MaxInputs
    /\ PosArg(trace, "msg", "SET_VOLUME") # {}
    /\ inputs = <<>>
    /\ mailbox = <<>>

(* C16: a set_volume, set_mute, get_volume or get_mute call whose driver hook
   fails leaves that hook pointer null and still takes the message path (a
   set call posts SET_VOLUME / SET_MUTE, a get call with refresh sends
   GET_VOLUME / GET_MUTE); a hook pointer that is null on a put sink stays
   null and the hook is not called, and every call made without the hook
   takes the message path. *)
HookCode == [set_volume |-> "SET_VOLUME", set_mute |-> "SET_MUTE",
             get_volume |-> "GET_VOLUME", get_mute |-> "GET_MUTE"]

HookRefresh == [set_volume |-> TRUE, set_mute |-> TRUE,
                get_volume |-> refresh.volume, get_mute |-> refresh.mute]

HookSends(t, c) ==
    IF c \in {"set_volume", "set_mute"}
    THEN Cardinality(PosArg(t, "post", HookCode[c])) = 1
    ELSE HookRefresh[c] <=> Cardinality(PosArg(t, "send", HookCode[c])) = 1

C16_FailedHookNulled ==
    [][\A c \in VolumeHooks :
         /\ (last'.op = c /\ last'.hooked /\ ~last'.hook_ok) =>
               /\ ~cb'[c]
               /\ Cardinality(PosArg(trace', "callback", c)) = 1
               /\ HookSends(trace', c)
         /\ (hist.put /\ ~cb[c]) =>
               /\ ~cb'[c]
               /\ PosArg(trace', "callback", c) = {}
               /\ last'.op = c => HookSends(trace', c)]_vars

C16_Witness ==
    /\ last.op = "get_volume"
    /\ last.hooked
    /\ ~last.hook_ok
    /\ refresh.volume
    /\ ~cb.get_volume
    /\ ~cb.set_mute
    /\ PosArg(trace, "send", "GET_VOLUME") # {}
    /\ PosArg(trace, "msg", "SET_MUTE") # {}

(* C17: pa_sink_update_status on a SUSPENDED sink calls no hook, sends no
   message and changes no state; on an IDLE or RUNNING sink, and
   pa_sink_suspend(FALSE) on any linked sink, it asks for RUNNING when some
   input of the roster is not corked and for IDLE otherwise, and when the
   call succeeds the state is RUNNING iff |inputs| - n_corked > 0;
   pa_sink_suspend(TRUE) asks for SUSPENDED. *)
Recomputes ==
    \/ last'.op = "update_status" /\ state # "SUSPENDED"
    \/ last'.op = "suspend" /\ ~last'.suspend

WantedState ==
    IF Len(inputs) - Cardinality(corked) > 0 THEN "RUNNING" ELSE "IDLE"

(* what sink_set_state does when it is asked for target *)
Asked(target) ==
    /\ last'.target = target
    /\ last'.ret = 0 => state' = target /\ thread_info'.state = target
    /\ (state # target /\ cb.set_state) =>
          \E k \in PosArg(trace', "set_state_cb", target) :
             \A j \in PosArg(trace', "send", "SET_STATE") : k < j
    /\ (state # target /\ last'.ret = 0) =>
          Cardinality(PosArg(trace', "send", "SET_STATE")) = 1
    /\ state = target => trace' = <<>> /\ last'.ret = 0

C17_StatusTarget ==
    [][/\ (last'.op = "update_status" /\ state = "SUSPENDED") =>
            /\ trace' = <<>>
            /\ last'.ret = 0
            /\ UNCHANGED <<state, thread_info, mailbox, cb, inputs, corked>>
       /\ Recomputes =>
            /\ Asked(WantedState)
            /\ last'.ret = 0 =>
                 (state' = "RUNNING"
                    <=> Len(inputs') - Cardinality(corked') > 0)
       /\ (last'.op = "suspend" /\ last'.suspend) => Asked("SUSPENDED")]_vars

C17_Witness ==
    /\ last.op = "update_status"
    /\ last.ret = 0
    /\ last.old_state = "RUNNING"
    /\ state = "IDLE"
    /\ Len(inputs) = MaxInputs
    /\ Cardinality(corked) = MaxInputs

(* C18, as stated: the result of pa_sink_render is not longer than the
   length asked for, 0 included, is a whole number of frames and is not
   longer than a block of the pool. *)
C18_ResultLengthAsStated ==
    last.op = "render" =>
        /\ last.ret <= last.length
        /\ last.ret % FrameSize = 0
        /\ last.ret <= BlockSizeMax

(* C18: the result of pa_sink_render is not empty, is a whole number of
   frames and is not longer than a block of the pool; it is not longer than
   the length asked for when that is not 0, and not longer than
   MIX_BUFFER_LENGTH cut to whole frames when 0 is asked for. *)
C18_ResultLength ==
    last.op = "render" =>
        /\ last.ret > 0
        /\ last.ret % FrameSize = 0
        /\ last.ret <= BlockSizeMax
        /\ last.length > 0 => last.ret <= last.length
        /\ last.length = 0 =>
              last.ret <= (MIX_BUFFER_LENGTH \div FrameSize) * FrameSize

C18_Witness ==
    /\ last.op = "render"
    /\ last.running
    /\ last.length = MaxFrames * FrameSize
    /\ last.length > BlockSizeMax
    /\ Cardinality(Contributors(trace)) = 2
    /\ \A k \in PosArg(trace, "peek", "audio") : trace[k].n > BlockSizeMax
    /\ last.ret = (BlockSizeMax \div FrameSize) * FrameSize

(* C19: no pass mixes more than MAX_MIX_CHANNELS contributors, and an input
   of the render map that a pass in RUNNING did not reach because the
   contributors were complete is asked for its audio by the next pass in
   RUNNING, if it is still in the map. *)
SkippedByCap ==
    IF last.op \in PassOps /\ last.running
          /\ Cardinality(Contributors(trace)) = MAX_MIX_CHANNELS
    THEN Range(thread_info.inputs) \ Peeked(trace)
    ELSE {}

C19_SkippedServedNext ==
    [][last'.op \in PassOps =>
         /\ Cardinality(Contributors(trace')) <= MAX_MIX_CHANNELS
         /\ last'.running =>
               \A i \in SkippedByCap \cap Range(thread_info'.inputs) :
                  i \in Peeked(trace')]_vars

(* C20: when ADD_INPUT has put an input in the render map, or
   REMOVE_INPUT_AND_BUFFER a ghost input, that input has ignore_rewind set,
   attached set, and the pending rewind is at least max_rewind. *)
Inserted ==
    IF last.op = "input_put" THEN {last.i}
    ELSE IF last.op = "input_move" /\ last.ghost # 0 THEN {last.ghost}
    ELSE {}

C20_InsertedIgnoresRewind ==
    \A i \in Inserted :
        /\ i \in Range(thread_info.inputs)
        /\ ith[i].attached
        /\ ith[i].ignore_rewind
        /\ thread_info.rewind_nbytes >= thread_info.max_rewind

(* C21: when ADD_INPUT or REMOVE_INPUT was handled for a sink whose driver
   has an update_requested_latency callback, pa_sink_invalidate_requested_latency
   has called that callback, and when REMOVE_INPUT_AND_BUFFER was handled
   too; without a callback of the driver that reads the latency the cache is
   invalid afterwards. *)
Notified(tr) == Pos(tr, "update_requested_latency_cb") # {}

C21_InvalidateNotifies ==
    (HandledMapMsg /\ cb.update_requested_latency) =>
        /\ Notified(trace)
        /\ DriverQueries(trace) = {} => ~thread_info.requested_latency_valid

(* C22: between the operations of the control thread the state of the render
   side is the state of the control side, thread_info.state = state, and
   every store of s->state by sink_set_state comes after the SET_STATE
   message was handled. *)
C22_MirrorAgrees ==
    created =>
        /\ thread_info.state = state
        /\ \A k \in Pos(trace, "store_state") :
              \E j \in PosArg(trace, "msg", "SET_STATE") : j < k

(* C23: in every pass, and for every roster and info array given to
   inputs_drop, the reference on the input and the reference on the chunk of
   every entry of the info array are released exactly once, whether the
   input is still in the roster or not, and nothing else is released. *)
Filled ==
    IF last.op = "inputs_drop" THEN Range(last.filled)
    ELSE IF last.op \in PassOps THEN Contributors(trace)
    ELSE {}

InputUnrefs(tr, i) == {k \in Pos(tr, "unref") : tr[k].i = i}
ChunkUnrefs(tr, i) == {k \in Pos(tr, "unref_chunk") : tr[k].i = i}

C23_ReleasedOnce ==
    (last.op \in PassOps \cup {"inputs_drop"}) =>
        /\ \A i \in Filled :
              /\ Cardinality(InputUnrefs(trace, i)) = 1
              /\ Cardinality(ChunkUnrefs(trace, i)) = 1
        /\ \A k \in Pos(trace, "unref") : trace[k].i \in Filled
        /\ \A k \in Pos(trace, "unref_chunk") : trace[k].i \in Filled

C23_Witness ==
    /\ last.op = "inputs_drop"
    /\ Len(last.filled) = MaxDrop
    /\ Len(last.roster) = MaxDrop - 1
    /\ last.roster[1] = last.filled[MaxDrop]
    /\ last.roster[2] = last.filled[1]
    /\ PosArg(trace, "unref", "stale") # {}
    /\ Cardinality(PosArg(trace, "unref", "")) = 2

(* C24: pa_sink_render_into_full (and pa_sink_render_full, which calls it)
   gives every pass the part of the target that is not filled yet, from
   offset d with length target.length - d where d is what the passes before
   produced; no pass produces more than it was given, and when the loop
   ends the passes have produced target.length bytes in all. *)
RECURSIVE Produced(_, _)
Produced(tr, k) ==
    IF k <= 1 THEN 0
    ELSE Produced(tr, k - 1)
            + (IF tr[k - 1].ev = "result" THEN tr[k - 1].n ELSE 0)

FullOps == {"render_into_full", "render_full"}

C24_FullFillsTarget ==
    last.op \in FullOps =>
        /\ Produced(trace, Len(trace) + 1) = last.length
        /\ Cardinality(Pos(trace, "suffix"))
              = Cardinality(Pos(trace, "result"))
        /\ \A k \in Pos(trace, "suffix") :
              /\ trace[k].i = Produced(trace, k)
              /\ trace[k].n = last.length - Produced(trace, k)
              /\ \E r \in Pos(trace, "result") :
                    /\ k < r
                    /\ \A j \in Pos(trace, "suffix") : ~(k < j /\ j < r)
                    /\ trace[r].n > 0
                    /\ trace[r].n % FrameSize = 0
                    /\ trace[r].n <= trace[k].n

C24_Witness ==
    /\ last.op = "render_into_full"
    /\ last.running
    /\ last.length = MaxFrames * FrameSize
    /\ Cardinality(Pos(trace, "suffix")) = 2
    /\ Cardinality(Contributors(trace)) = 2
    /\ \E k \in Pos(trace, "result") : trace[k].n = 2 * FrameSize

(* C25: while the monitor source is opened every pass of pa_sink_render and
   pa_sink_render_into, alone or inside pa_sink_render_into_full,
   pa_sink_render_full or pa_sink_skip, is followed by one post of its
   result to the monitor source before the next pass starts, and there is
   no other post; while it is not opened nothing is posted; a pa_sink_skip
   that only drops runs no pass and posts nothing. *)
LoopOps == PassOps \cup FullOps \cup {"skip"}

PostsOf(tr, k) ==
    {m \in Pos(tr, "monitor_post") :
        /\ k < m
        /\ \A j \in Pos(tr, "pass") : ~(k < j /\ j < m)}

C25_MonitorPostOnce ==
    last.op \in LoopOps =>
        /\ monitor # "linked" => Pos(trace, "monitor_post") = {}
        /\ monitor = "linked" =>
              /\ \A k \in Pos(trace, "pass") :
                    /\ Cardinality(PostsOf(trace, k)) = 1
                    /\ \A m \in PostsOf(trace, k) :
                          \E r \in Pos(trace, "result") :
                             k < r /\ r < m /\ trace[r].n = trace[m].n
              /\ Cardinality(Pos(trace, "monitor_post"))
                    = Cardinality(Pos(trace, "pass"))
        /\ (last.op = "skip" /\ ~last.used) =>
              Pos(trace, "pass") \cup Pos(trace, "monitor_post") = {}
        /\ (last.op = "skip" /\ last.used) => Pos(trace, "pass") # {}
        /\ last.op \in PassOps => Cardinality(Pos(trace, "pass")) = 1

C25_Witness ==
    /\ last.op = "skip"
    /\ last.used
    /\ monitor = "linked"
    /\ Cardinality(Pos(trace, "pass")) = MaxFrames
    /\ Cardinality(Pos(trace, "monitor_post")) = MaxFrames
    /\ Contributors(trace) # {}

(* C26, as stated: in every state the pending rewind is at most the limit,
   thread_info.rewind_nbytes <= thread_info.max_rewind. *)
C26_PendingWithinLimitAsStated ==
    thread_info.rewind_nbytes <= thread_info.max_rewind

(* C26: every step that changes the pending rewind leaves it at most the
   limit of that moment, the driver's request_rewind callback is called with
   a pending rewind that is at most the limit, and a pending rewind that is
   at most the limit stays so as long as the limit is not lowered: it
   exceeds the limit only after pa_sink_set_max_rewind lowered it. *)
WithinLimit(ti) == ti.rewind_nbytes <= ti.max_rewind

C26_PendingWithinLimit ==
    [][/\ thread_info'.rewind_nbytes # thread_info.rewind_nbytes =>
            WithinLimit(thread_info')
       /\ Pos(trace', "request_rewind_cb") # {} => WithinLimit(thread_info')
       /\ (WithinLimit(thread_info) /\ ~WithinLimit(thread_info')) =>
            /\ last'.op = "set_max_rewind"
            /\ thread_info'.max_rewind < thread_info.max_rewind
            /\ thread_info'.rewind_nbytes = thread_info.rewind_nbytes]_vars

C26_Witness ==
    /\ last.op = "request_rewind"
    /\ last.prior = 1
    /\ last.n = MaxBytes
    /\ thread_info.rewind_nbytes = MaxBytes
    /\ thread_info.max_rewind = MaxBytes
    /\ HasEvent(trace, "request_rewind_cb", "")

(* C27: a pa_sink_get_volume that comes right after pa_sink_set_volume(v)
   returns v, and a pa_sink_get_mute right after pa_sink_set_mute(m) returns
   m, whatever hooks the driver has, whether they fail, and whether the
   refresh flags are set; a get hook that succeeds is taken to read from the
   hardware what was set. *)
ReadsBack(set, get) ==
    /\ last.op = set
    /\ last'.op = get
    /\ (last'.hooked /\ last'.hook_ok) => last'.v = last.v

C27_VolumeRoundTrip ==
    [][/\ ReadsBack("set_volume", "get_volume") =>
            (last'.ret = last.v /\ volume' = last.v)
       /\ ReadsBack("set_mute", "get_mute") =>
            (last'.ret = (IF last.v THEN 1 ELSE 0) /\ muted' = last.v)]_vars

(* C28: for every input the attach and detach hooks that the sink invokes
   alternate: detach is never invoked on an input whose last hook was detach,
   attach never on one whose last hook was attach.  Stated over the hooks of
   two operations in a row (trace holds the events of the last operation). *)
HookCalls(tr, i) ==
    SelectSeq(tr, LAMBDA x : x.ev \in {"attach", "detach"} /\ x.i = i)

Alternates(calls) ==
    \A k \in 1..(Len(calls) - 1) : calls[k].ev # calls[k + 1].ev

C28_HooksAlternate ==
    [][\A i \in 1..MaxInputs :
          Alternates(HookCalls(trace, i) \o HookCalls(trace', i))]_vars

(* C29: a sink that is in the core's sinks index is linked (IDLE, RUNNING or
   SUSPENDED), so that pa_sink_suspend_all meets the precondition of
   pa_sink_suspend on every sink it visits. *)
C29_IndexedIsLinked == core_sinks => PA_SINK_LINKED(state)

(* C30: when pa_sink_skip(length) returns, every input of the render map has
   been dropped by length bytes in all, and no rewind is pending, whether the
   monitor source has consumers or not and whether the sink is IDLE or
   RUNNING. *)
C30_SkipAdvancesAll ==
    last.op = "skip" =>
        /\ thread_info.rewind_nbytes = 0
        /\ \A k \in DOMAIN thread_info.inputs :
              DroppedBytes(trace, thread_info.inputs[k]) = last.length

(* C31: when REMOVE_INPUT_AND_BUFFER with a ghost has finished, the bytes
   dropped from the input that moves away are the bytes that were pushed into
   the move buffer, whatever the peeks and the pushes answered. *)
RECURSIVE PushedBytes(_)
PushedBytes(tr) ==
    IF tr = <<>> THEN 0
    ELSE (IF Head(tr).ev = "push" /\ Head(tr).arg = "ok" THEN Head(tr).n ELSE 0)
             + PushedBytes(Tail(tr))

C31_DrainLosesNothing ==
    (last.op = "input_move" /\ last.ghost # 0) =>
        DroppedBytes(trace, last.i) = PushedBytes(trace)

====
